---- MODULE Spec2Model ----
(***************************************************************************)
(* A model of the recyclable index-access layer of tantivy-ext:            *)
(*   - IndexWriterRecycler (src/src/index/writer_recycler.rs): the writer  *)
(*     slot Arc<RwLock<Option<IndexWriter>>>, the entries_processed        *)
(*     counter and replace_writer;                                         *)
(*   - SearchIndex (src/src/index/search_index.rs): add, remove,           *)
(*     remove_by_terms, commit, query, recycle_writer;                     *)
(*   - QueryBuilder::execute (src/src/index/query/builder.rs);             *)
(*   - retry_with_backoff (src/src/util/async_retry.rs);                   *)
(*   - SearchIndex::new, step by step;                                     *)
(*   - RecyclingSearchIndex (src/src/index/recycling_index.rs).            *)
(* Every await point and every atomic load/store of the source is a        *)
(* separate step, so that concurrent producers interleave as tokio tasks   *)
(* on a multi-threaded runtime do. Engine calls that return a Result      *)
(* (add_document, commit, wait_merging_threads, index.writer) may fail at  *)
(* will.                                                                   *)
(*                                                                         *)
(* Specifications:                                                         *)
(*   Spec      concurrent producers and queries, engine errors included;   *)
(*   SpecRace  concurrent producers, every engine call succeeding;         *)
(*   SpecSeq   one producer calling sequentially, every engine call        *)
(*             succeeding, entries_before_recycle drawn from Thresholds;   *)
(*   SpecRetry one call of retry_with_backoff;                             *)
(*   SpecFair  Spec with a fair lock and scheduler;                        *)
(*   SpecProgram, SpecVisibility  one caller running a program of          *)
(*             single-record calls (one key / different keys), the         *)
(*             reader reloading and queries running;                       *)
(*   SpecFaults  one caller, batches of several records, add_document      *)
(*             and commit failing at will;                                 *)
(*   SpecRecycle concurrent producers writing records of their own,        *)
(*             with forced and threshold-triggered recycles;               *)
(*   SpecCommit  one caller running a program of single-record calls,      *)
(*             commit failing at will, the backoff drawing any jitter;     *)
(*   SpecQuery  one writer and one query executed step by step on an       *)
(*             index opened with documents in it;                          *)
(*   SpecNew   SearchIndex::new on any content of index_path, then one     *)
(*             caller on the index it returned;                            *)
(*   SpecRecyclingIndex  one caller on a RecyclingSearchIndex;             *)
(*   SpecLeftovers  SpecFaults with forced recycles;                       *)
(*   SpecRecycleFaults  one caller, recycle_writer among its calls, the    *)
(*             engine calls of replace_writer failing at will.             *)
(***************************************************************************)
EXTENDS Integers, Sequences, FiniteSets, TLC

(***************************************************************************)
(* Bounds of the model.                                                    *)
(***************************************************************************)
NumProducers == 2
NumQueriers == 1
MaxCalls == 2
MaxRaceCalls == 3
MaxBatch == 1
ConcThreshold == 1
MaxSeqCalls == 4
MaxSeqBatch == 2
MaxThreshold == 3
MaxRetriesBound == 3
NumKeys == 2
NumValues == 2
ProgramCalls == 2
MaxResults == 2

Producers == 1..NumProducers
Queriers == 1..NumQueriers
BatchSizes == 0..MaxBatch
SeqBatchSizes == 0..MaxSeqBatch
Thresholds == 1..MaxThreshold
Keys == 1..NumKeys
Values == 1..NumValues

(***************************************************************************)
(* Program constants.                                                      *)
(***************************************************************************)
\* A commit that is tried twice.
CommitMaxRetriesMut == 3 - 1

\* retry_with_backoff(|_| writer.commit(), 3, ..) in SearchIndex::commit.
CommitMaxRetries == 3

\* A commit whose first backoff sleep is based on one second.
CommitInitialDelayMut == 10 * 100

\* retry_with_backoff(.., Duration::from_millis(100)) in SearchIndex::commit, in ms.
CommitInitialDelay == 100

\* Option<IndexWriter>: None is 0, Some(w) is the positive identity w.
None == 0
\* The RwLock of the slot: 0 when no write guard exists.
NoTask == 0

WriteOps == {"add", "remove", "remove_by_terms"}
AllOps == WriteOps \cup {"recycle_writer"}

VARIABLES
    entries_before_recycle, \* IndexWriterRecycler.entries_before_recycle
    entries_processed,      \* IndexWriterRecycler.entries_processed (AtomicUsize)
    writer,                 \* content of the slot: None or a writer identity
    lock,                   \* task holding the write guard of the slot, or NoTask
    writers_created,        \* number of successful index.writer(..) calls
    pc,                     \* position of every producer task in its call
    op,                     \* the SearchIndex method whose body a producer is running
    models_len,             \* models_len / terms_len of the running call
    staged,                 \* records of the batch staged so far (loop index)
    attempt,                \* attempt number of retry_with_backoff inside commit
    entries,                \* local `entries` loaded in register_entries_processed
    result,                 \* what the last call of the task returned
    calls,                  \* number of calls started
    reports,                \* the nums passed to register_entries_processed, in order
    recycles_triggered,     \* replace_writer calls made by register_entries_processed
    suspended,              \* writers that waited on the slot while a recycle was in progress
    qpc,                    \* position of every query task
    models,                 \* the batch of the running call: models / terms
    committed,              \* documents of the index as of the last successful commit
    uncommitted,            \* operations staged in the writer of the slot, not committed
    searcher,               \* what reader.searcher() returns: the commit the reader has
                            \* loaded (gen) and its documents (docs)
    program,                \* the calls a sequential caller makes, in order
    q_searcher,             \* the Searcher owned by the QueryBuilder of every query task
    sleep_for,              \* jittered_delay of the backoff sleep a commit is in, in ms
    q_max_results,          \* QueryBuilder.max_results of every query task
    q_hits,                 \* `documents` in execute: the (score, address) pairs of the search
    q_models,               \* the models execute has decoded so far
    q_result,               \* what the last execute of the query task returned
    index_path,             \* what the file system holds at index_path
    n_pc,                   \* position of SearchIndex::new
    n_result,               \* what SearchIndex::new returned
    r_pc, r_max_retries, r_initial_delay, r_attempt, r_delay, r_log, r_sleeps, r_result

indexVars == <<entries_before_recycle, entries_processed, writer, lock, writers_created>>
taskVars == <<pc, op, models_len, staged, attempt, sleep_for, entries, result>>
ghostVars == <<calls, reports, recycles_triggered, suspended>>
queryVars == <<qpc>>
storeVars == <<committed, uncommitted>>
readerVars == <<searcher, q_searcher>>
execVars == <<q_max_results, q_hits, q_models, q_result>>
newVars == <<index_path, n_pc, n_result>>
retryVars == <<r_pc, r_max_retries, r_initial_delay, r_attempt, r_delay, r_log, r_sleeps, r_result>>
serviceVars == <<indexVars, taskVars, ghostVars, queryVars, models, storeVars, readerVars,
                 program, execVars, newVars>>
vars == <<indexVars, taskVars, ghostVars, queryVars, models, storeVars, readerVars, retryVars,
          program, execVars, newVars>>


(***************************************************************************)
(* retry_with_backoff (async_retry.rs:54-86).                              *)
(***************************************************************************)
\* An outcome of one invocation of the closure, or the result of a call.
NoResult == [kind |-> "none", value |-> 0]
Ok(v) == [kind |-> "Ok", value |-> v]
Err(e) == [kind |-> "Err", value |-> e]
Panic == [kind |-> "panic", value |-> 0]

\* rng.gen_range(0.5..1.5), in percent: both ends and the middle of the range.
JitterPcts == {50, 100, 149}
InitialDelays == {1, 100}
OkValues == {1, 2}
ErrValues == {1, 2}

\* `for attempt in 1..=max_retries`: the loop is left when the range is exhausted.
LoopExits(att, max_retries) == att > max_retries

\* A match that sleeps and retries whenever attempts are left, also after Ok.
RetryDecisionMut(att, max_retries, outcome) ==
    IF att < max_retries THEN "sleep"
    ELSE IF outcome.kind = "Ok" THEN "return_ok"
    ELSE "return_err"

\* A match whose guard lets the last failed attempt sleep too.
RetryDecisionSleepLast(att, max_retries, outcome) ==
    IF outcome.kind = "Ok" THEN "return_ok"
    ELSE IF att <= max_retries THEN "sleep"
    ELSE "return_err"

\* The match on the closure's result: what the loop body does after attempt `att`.
RetryDecision(att, max_retries, outcome) ==
    IF outcome.kind = "Ok" THEN "return_ok"
    ELSE IF att < max_retries THEN "sleep"
    ELSE "return_err"

\* delay.mul_f64(jitter)
JitteredDelay(delay, pct) == (delay * pct) \div 100

\* A backoff whose delay stays what it was.
NextDelayMut(delay) == delay

\* delay *= 2
NextDelay(delay) == delay * 2

\* The local `delay` when attempt number att is made: initial_delay, doubled
\* after every earlier attempt.
RECURSIVE DelayAt(_, _)
DelayAt(initial_delay, att) ==
    IF att <= 1 THEN initial_delay ELSE NextDelay(DelayAt(initial_delay, att - 1))

\* A jitter of 1.0, in percent: the one drawn where the length of a sleep
\* plays no role.
SomeJitter == 100

InitRetryIdle ==
    /\ r_pc = "done"
    /\ r_max_retries = 0
    /\ r_initial_delay = 0
    /\ r_attempt = 0
    /\ r_delay = 0
    /\ r_log = << >>
    /\ r_sleeps = << >>
    /\ r_result = NoResult

\* The call retry_with_backoff(function, max_retries, initial_delay).
InitRetryCall ==
    /\ r_pc = "attempt"
    /\ r_max_retries \in 0..MaxRetriesBound
    /\ r_initial_delay \in InitialDelays
    /\ r_attempt = 1
    /\ r_delay = r_initial_delay
    /\ r_log = << >>
    /\ r_sleeps = << >>
    /\ r_result = NoResult

\* One iteration of the loop: function(attempt) returns `outcome` and the
\* match either returns it or sleeps for the jittered delay.
RetryAttempt(outcome) ==
    /\ r_pc = "attempt"
    /\ ~LoopExits(r_attempt, r_max_retries)
    /\ r_log' = Append(r_log, outcome)
    /\ LET decision == RetryDecision(r_attempt, r_max_retries, outcome) IN
        IF decision = "sleep"
        THEN /\ \E pct \in JitterPcts :
                    r_sleeps' = Append(r_sleeps, JitteredDelay(r_delay, pct))
             /\ r_pc' = "sleep"
             /\ UNCHANGED r_result
        ELSE /\ r_result' = outcome
             /\ r_pc' = "done"
             /\ UNCHANGED r_sleeps
    /\ UNCHANGED <<r_max_retries, r_initial_delay, r_attempt, r_delay, serviceVars>>

\* function(attempt) returns Ok(result).
RetryAttemptOk == \E v \in OkValues : RetryAttempt(Ok(v))

\* function(attempt) returns Err(err).
RetryAttemptErr == \E e \in ErrValues : RetryAttempt(Err(e))

\* The sleep is over: double the delay and take the next iteration of the loop.
RetryWake ==
    /\ r_pc = "sleep"
    /\ r_delay' = NextDelay(r_delay)
    /\ r_attempt' = r_attempt + 1
    /\ r_pc' = "attempt"
    /\ UNCHANGED <<r_max_retries, r_initial_delay, r_log, r_sleeps, r_result, serviceVars>>

\* The loop ends without a return: unreachable!() panics.
RetryUnreachable ==
    /\ r_pc = "attempt"
    /\ LoopExits(r_attempt, r_max_retries)
    /\ r_result' = Panic
    /\ r_pc' = "done"
    /\ UNCHANGED <<r_max_retries, r_initial_delay, r_attempt, r_delay, r_log, r_sleeps,
                   serviceVars>>

(***************************************************************************)
(* Records, documents and the engine's index (tantivy): what the calls of  *)
(* search_index.rs:69-154 do to it.                                        *)
(***************************************************************************)
\* A model M: its primary-key field and its other stored fields.
Records == [key : Keys, val : Values]

\* The record every call of a specification without data inputs writes.
SomeRecord == [key |-> 1, val |-> 1]

\* A batch of n such records.
SameRecords(n) == [i \in 1..n |-> SomeRecord]

\* The batches over a set of records of the given sizes.
Batches(records, sizes) == UNION {[1..n -> records] : n \in sizes}

\* model.get_primary_key(): the term of the primary-key field.
get_primary_key(model) == model.key

\* model.as_document(): the stored fields of the model, by schema field.
as_document(model) == <<model.key, model.val>>

\* M::from_document(doc, score): the model rebuilt from the stored fields.
from_document(doc) == [key |-> doc[1], val |-> doc[2]]

\* An index holding no document: per primary-key term, the documents stored
\* under it, in insertion order.
NoDocs == [k \in Keys |-> << >>]

\* A writer with nothing staged: the terms deleted and the documents added
\* since its last commit.
EmptyBuffer == [del |-> {}, add |-> NoDocs]

\* A delete_term that stages nothing.
delete_termMut(buf, term) == buf

\* writer.delete_term(term): every document with the term that was added
\* before this operation is deleted at the next commit.
delete_term(buf, term) ==
    [del |-> buf.del \cup {term}, add |-> [buf.add EXCEPT ![term] = << >>]]

\* writer.add_document(doc) returning Ok: the document is staged.
add_document(buf, doc) ==
    [del |-> buf.del, add |-> [buf.add EXCEPT ![doc[1]] = Append(@, doc)]]

\* One iteration of add that stages the document without delete_term.
StageModelMut(buf, o, model) ==
    IF o = "add"
    THEN add_document(buf, as_document(model))
    ELSE delete_term(buf, get_primary_key(model))

\* One iteration of the loop of add (search_index.rs:75-81), remove (97-100)
\* or remove_by_terms (123-125) on the writer.
StageModel(buf, o, model) ==
    IF o = "add"
    THEN add_document(delete_term(buf, get_primary_key(model)), as_document(model))
    ELSE delete_term(buf, get_primary_key(model))

\* A commit that forgets the deletions.
PublishMut(docs, buf) == [k \in Keys |-> docs[k] \o buf.add[k]]

\* writer.commit() returning Ok: the staged operations become the index.
Publish(docs, buf) ==
    [k \in Keys |-> (IF k \in buf.del THEN << >> ELSE docs[k]) \o buf.add[k]]

\* The Searcher of a reader that has loaded the empty index: gen counts the
\* commits the loaded index includes.
NoSearcher == [gen |-> 0, docs |-> NoDocs]

\* QueryBuilder::execute for a term query on the primary key: the models of
\* the documents the searcher holds under the term.
Execute(docs, term) == [i \in 1..Len(docs[term]) |-> from_document(docs[term][i])]

(***************************************************************************)
(* IndexWriterRecycler and SearchIndex.                                    *)
(***************************************************************************)
\* The indexes a directory may hold when SearchIndex::new opens it
\* (search_index.rs:39-42): per primary key no document or the one an
\* earlier process left there.
ExistingIndexes ==
    {[k \in Keys |-> IF k \in present THEN <<as_document([key |-> k, val |-> NumValues])>>
                                       ELSE << >>]
        : present \in SUBSET Keys}

\* IndexWriterRecycler::new and SearchIndex::new have returned: the index is
\* one of `indexes` and the reader has loaded it, writer Some(first writer),
\* entries_processed 0, no task running.
InitIndexOn(thresholds, indexes) ==
    /\ entries_before_recycle \in thresholds
    /\ entries_processed = 0
    /\ writer = 1
    /\ lock = NoTask
    /\ writers_created = 1
    /\ pc = [t \in Producers |-> "idle"]
    /\ op = [t \in Producers |-> "none"]
    /\ models_len = [t \in Producers |-> 0]
    /\ staged = [t \in Producers |-> 0]
    /\ attempt = [t \in Producers |-> 0]
    /\ entries = [t \in Producers |-> 0]
    /\ result = [t \in Producers |-> "none"]
    /\ calls = 0
    /\ reports = << >>
    /\ recycles_triggered = 0
    /\ suspended = {}
    /\ qpc = [q \in Queriers |-> "idle"]
    /\ models = [t \in Producers |-> << >>]
    /\ committed \in indexes
    /\ uncommitted = EmptyBuffer
    /\ searcher = [gen |-> 0, docs |-> committed]
    /\ q_searcher = [q \in Queriers |-> NoSearcher]
    /\ sleep_for = [t \in Producers |-> 0]
    /\ q_max_results = [q \in Queriers |-> 0]
    /\ q_hits = [q \in Queriers |-> << >>]
    /\ q_models = [q \in Queriers |-> << >>]
    /\ q_result = [q \in Queriers |-> NoResult]
    /\ index_path = "index"
    /\ n_pc = "done"
    /\ n_result = "Ok"

\* SearchIndex::new has created a new index (search_index.rs:44-47).
InitIndex(thresholds) == InitIndexOn(thresholds, {NoDocs})

\* replace_writer is between taking the old writer and installing the new one.
RecycleInProgress == \E t \in Producers : pc[t] \in {"rw_wait", "rw_new"}

\* A write() that does not wait for the other guards.
CanWriteMut(t) == TRUE

\* writer.write().await completes only when no other guard of the RwLock exists.
CanWrite(t) == lock = NoTask

\* The `?` operator and the end of a call: the call of task t returns r.
\* Locals of the call are dead afterwards.
Return(t, r) ==
    /\ pc' = [pc EXCEPT ![t] = "idle"]
    /\ result' = [result EXCEPT ![t] = r]
    /\ op' = [op EXCEPT ![t] = "none"]
    /\ models_len' = [models_len EXCEPT ![t] = 0]
    /\ staged' = [staged EXCEPT ![t] = 0]
    /\ attempt' = [attempt EXCEPT ![t] = 0]
    /\ sleep_for' = [sleep_for EXCEPT ![t] = 0]
    /\ entries' = [entries EXCEPT ![t] = 0]
    /\ models' = [models EXCEPT ![t] = << >>]
    /\ suspended' = suspended \ {t}

\* A producer calls add(models), remove(models) or remove_by_terms(terms)
\* with a batch and reaches writer.write().await.
CallWrite(t, o, batch, max_calls) ==
    /\ pc[t] = "idle"
    /\ calls < max_calls
    /\ o \in WriteOps
    /\ calls' = calls + 1
    /\ pc' = [pc EXCEPT ![t] = "lock"]
    /\ op' = [op EXCEPT ![t] = o]
    /\ models' = [models EXCEPT ![t] = batch]
    /\ models_len' = [models_len EXCEPT ![t] = Len(batch)]
    /\ result' = [result EXCEPT ![t] = "none"]
    /\ suspended' = IF RecycleInProgress THEN suspended \cup {t} ELSE suspended
    /\ UNCHANGED <<indexVars, staged, attempt, sleep_for, entries, reports,
                   recycles_triggered, queryVars, storeVars, readerVars, retryVars, program,
                   execVars, newVars>>

\* writer.write().await returns the guard and as_mut().unwrap() finds a writer.
AcquireWriter(t) ==
    /\ pc[t] = "lock"
    /\ CanWrite(t)
    /\ writer # None
    /\ lock' = t
    /\ pc' = [pc EXCEPT ![t] = IF models_len[t] = 0 THEN "commit" ELSE "stage"]
    /\ staged' = [staged EXCEPT ![t] = 0]
    /\ attempt' = [attempt EXCEPT ![t] = IF models_len[t] = 0 THEN 1 ELSE 0]
    /\ suspended' = suspended \ {t}
    /\ UNCHANGED <<entries_before_recycle, entries_processed, writer, writers_created,
                   op, models_len, sleep_for, entries, result, calls, reports,
                   recycles_triggered,
                   queryVars, models, storeVars, readerVars, retryVars, program,
                   execVars, newVars>>

\* writer.write().await returns the guard and as_mut().unwrap() finds None:
\* the task panics, the guard is dropped by the unwinding.
UnwrapNone(t) ==
    /\ pc[t] = "lock"
    /\ CanWrite(t)
    /\ writer = None
    /\ pc' = [pc EXCEPT ![t] = "panicked"]
    /\ result' = [result EXCEPT ![t] = "panic"]
    /\ UNCHANGED <<indexVars, op, models_len, staged, attempt, sleep_for, entries,
                   ghostVars, queryVars, models, storeVars, readerVars, retryVars, program,
                   execVars, newVars>>

\* One iteration of the loop over the batch: delete_term, and for add
\* add_document returning Ok. After the last record the call enters commit.
StageRecord(t) ==
    /\ pc[t] = "stage"
    /\ staged[t] < models_len[t]
    /\ staged' = [staged EXCEPT ![t] = @ + 1]
    /\ pc' = [pc EXCEPT ![t] = IF staged[t] + 1 = models_len[t] THEN "commit" ELSE "stage"]
    /\ attempt' = [attempt EXCEPT ![t] = IF staged[t] + 1 = models_len[t] THEN 1 ELSE 0]
    /\ uncommitted' = StageModel(uncommitted, op[t], models[t][staged[t] + 1])
    /\ UNCHANGED <<indexVars, op, models_len, sleep_for, entries, result,
                   ghostVars, queryVars, models, committed, readerVars, retryVars, program,
                   execVars, newVars>>

\* A failing add that reports the records it had staged before the failure.
StageFailReportsMut(t) ==
    /\ pc[t] = "stage"
    /\ op[t] = "add"
    /\ staged[t] < models_len[t]
    /\ uncommitted' = delete_term(uncommitted, get_primary_key(models[t][staged[t] + 1]))
    /\ lock' = NoTask
    /\ entries_processed' = entries_processed + staged[t]
    /\ Return(t, "Err")
    /\ UNCHANGED <<entries_before_recycle, writer, writers_created,
                   calls, reports, recycles_triggered, queryVars, committed, readerVars,
                   retryVars, program,
                   execVars, newVars>>

\* An add whose failing add_document comes before the delete_term of the record.
StageFailMut(t) ==
    /\ pc[t] = "stage"
    /\ op[t] = "add"
    /\ staged[t] < models_len[t]
    /\ lock' = NoTask
    /\ Return(t, "Err")
    /\ UNCHANGED <<entries_before_recycle, entries_processed, writer, writers_created,
                   calls, reports, recycles_triggered, queryVars, storeVars, readerVars,
                   retryVars, program,
                   execVars, newVars>>

\* delete_term of the record is done and add_document(..)? returns Err: add
\* returns the error, the guard is dropped.
StageFail(t) ==
    /\ pc[t] = "stage"
    /\ op[t] = "add"
    /\ staged[t] < models_len[t]
    /\ uncommitted' = delete_term(uncommitted, get_primary_key(models[t][staged[t] + 1]))
    /\ lock' = NoTask
    /\ Return(t, "Err")
    /\ UNCHANGED <<entries_before_recycle, entries_processed, writer, writers_created,
                   calls, reports, recycles_triggered, queryVars, committed, readerVars,
                   retryVars, program,
                   execVars, newVars>>

\* A write guard declared outside the block, as in
\* RecyclingSearchIndex::remove (recycling_index.rs:109): the task still
\* holds it after the block.
GuardAfterBlockMut(t) == t

\* The holder of the write guard once the block that declares writer_lock
\* has ended (search_index.rs:72-83, 95-103, 121-128): the guard is dropped.
GuardAfterBlock(t) == NoTask

\* A commit that rolls the writer back when its last attempt has failed.
BufferAfterFailedCommitMut(buf) == EmptyBuffer

\* What the writer has staged when `self.commit(writer).await?` returns the
\* error (search_index.rs:82, 137-141): no rollback is called, the staged
\* operations stay in the writer.
BufferAfterFailedCommit(buf) == buf

\* A guard given up for the time of the backoff sleep.
GuardDuringSleepMut(t) == NoTask

\* The holder of the write guard while commit sleeps between two attempts:
\* writer_lock is a local of the block around the commit
\* (search_index.rs:72-83), alive across the await of the sleep.
GuardDuringSleep(t) == t

\* One iteration of retry_with_backoff inside commit (search_index.rs:137-141):
\* writer.commit() returns `outcome`. On Ok the block ends, the guard is
\* dropped and the call goes on to register_entries_processed(models_len),
\* whose result every one of the three methods just forwards (op is dead); on
\* Err with attempts left the task sleeps for the jittered delay (pct is the
\* jitter drawn, in percent), holding the guard; on the last Err
\* `commit(..)?` returns the error from the call and the guard is dropped.
CommitAttempt(t, outcome, pct) ==
    /\ pc[t] = "commit"
    /\ ~LoopExits(attempt[t], CommitMaxRetries)
    /\ LET decision == RetryDecision(attempt[t], CommitMaxRetries, outcome) IN
        CASE decision = "return_ok" ->
                /\ lock' = GuardAfterBlock(t)
                /\ pc' = [pc EXCEPT ![t] = "reg_load"]
                /\ staged' = [staged EXCEPT ![t] = 0]
                /\ attempt' = [attempt EXCEPT ![t] = 0]
                /\ reports' = Append(reports, models_len[t])
                /\ op' = [op EXCEPT ![t] = "none"]
                /\ models' = [models EXCEPT ![t] = << >>]
                /\ committed' = Publish(committed, uncommitted)
                /\ uncommitted' = EmptyBuffer
                /\ UNCHANGED <<models_len, sleep_for, entries, result, suspended>>
          [] decision = "sleep" ->
                /\ pc' = [pc EXCEPT ![t] = "sleep"]
                /\ sleep_for' = [sleep_for EXCEPT ![t] =
                        JitteredDelay(DelayAt(CommitInitialDelay, attempt[t]), pct)]
                /\ lock' = GuardDuringSleep(t)
                /\ UNCHANGED <<op, models_len, staged, attempt, entries, result,
                               reports, suspended, models, storeVars>>
          [] OTHER ->
                /\ lock' = NoTask
                /\ Return(t, "Err")
                /\ uncommitted' = BufferAfterFailedCommit(uncommitted)
                /\ UNCHANGED <<reports, committed>>
    /\ UNCHANGED <<entries_before_recycle, entries_processed, writer, writers_created,
                   calls, recycles_triggered, queryVars, readerVars, retryVars, program,
                   execVars, newVars>>

\* writer.commit() returns Ok.
CommitOk(t) == CommitAttempt(t, Ok(0), SomeJitter)

\* writer.commit() returns Err.
CommitErr(t) == CommitAttempt(t, Err(0), SomeJitter)

\* writer.commit() returns Err, the backoff sleep drawing any jitter.
CommitErrJitter(t) == \E pct \in JitterPcts : CommitAttempt(t, Err(0), pct)

\* tokio::time::sleep(jittered_delay).await is over: next attempt.
CommitWake(t) ==
    /\ pc[t] = "sleep"
    /\ attempt' = [attempt EXCEPT ![t] = @ + 1]
    /\ sleep_for' = [sleep_for EXCEPT ![t] = 0]
    /\ pc' = [pc EXCEPT ![t] = "commit"]
    /\ UNCHANGED <<indexVars, op, models_len, staged, entries, result,
                   ghostVars, queryVars, models, storeVars, readerVars, retryVars, program,
                   execVars, newVars>>

(***************************************************************************)
(* IndexWriterRecycler::register_entries_processed (writer_recycler.rs:36-47) *)
(***************************************************************************)
\* let entries = self.entries_processed.load(Relaxed);
RegLoad(t) ==
    /\ pc[t] = "reg_load"
    /\ entries' = [entries EXCEPT ![t] = entries_processed]
    /\ pc' = [pc EXCEPT ![t] = "reg_store"]
    /\ UNCHANGED <<indexVars, op, models_len, staged, attempt, sleep_for, result,
                   ghostVars, queryVars, models, storeVars, readerVars, retryVars, program,
                   execVars, newVars>>

\* The comparison of the other variant (recycling_index.rs:185): >=.
ExceedsThresholdMut(new_num, threshold) == new_num >= threshold

\* if new_num > self.entries_before_recycle
ExceedsThreshold(new_num, threshold) == new_num > threshold

\* An else branch that adds num to the counter as it is now, as a fetch_add
\* would, instead of storing the sum computed from the value loaded.
RegStoreMut(t) ==
    /\ pc[t] = "reg_store"
    /\ ~ExceedsThreshold(entries[t] + models_len[t], entries_before_recycle)
    /\ entries_processed' = entries_processed + models_len[t]
    /\ Return(t, "Ok")
    /\ UNCHANGED <<entries_before_recycle, writer, lock, writers_created,
                   calls, reports, recycles_triggered, queryVars, storeVars, readerVars,
                   retryVars, program,
                   execVars, newVars>>

\* The else branch: store(entries + num); Ok(()).
RegStore(t) ==
    /\ pc[t] = "reg_store"
    /\ ~ExceedsThreshold(entries[t] + models_len[t], entries_before_recycle)
    /\ entries_processed' = entries[t] + models_len[t]
    /\ Return(t, "Ok")
    /\ UNCHANGED <<entries_before_recycle, writer, lock, writers_created,
                   calls, reports, recycles_triggered, queryVars, storeVars, readerVars,
                   retryVars, program,
                   execVars, newVars>>

\* The then branch without its store(0).
RegResetMut(t) ==
    /\ pc[t] = "reg_store"
    /\ ExceedsThreshold(entries[t] + models_len[t], entries_before_recycle)
    /\ recycles_triggered' = recycles_triggered + 1
    /\ pc' = [pc EXCEPT ![t] = "rw_lock"]
    /\ entries' = [entries EXCEPT ![t] = 0]
    /\ UNCHANGED <<indexVars, op, models_len, staged, attempt, sleep_for, result,
                   calls, reports, suspended, queryVars, models, storeVars, readerVars,
                   retryVars, program,
                   execVars, newVars>>

\* The then branch: store(0), then call replace_writer.
RegReset(t) ==
    /\ pc[t] = "reg_store"
    /\ ExceedsThreshold(entries[t] + models_len[t], entries_before_recycle)
    /\ entries_processed' = 0
    /\ recycles_triggered' = recycles_triggered + 1
    /\ pc' = [pc EXCEPT ![t] = "rw_lock"]
    /\ entries' = [entries EXCEPT ![t] = 0]
    /\ UNCHANGED <<entries_before_recycle, writer, lock, writers_created,
                   op, models_len, staged, attempt, sleep_for, result,
                   calls, reports, suspended, queryVars, models, storeVars, readerVars,
                   retryVars, program,
                   execVars, newVars>>

(***************************************************************************)
(* IndexWriterRecycler::replace_writer (writer_recycler.rs:49-63) and      *)
(* SearchIndex::recycle_writer (search_index.rs:165-167).                  *)
(***************************************************************************)
\* A producer calls recycle_writer() and reaches self.writer.write().await.
CallRecycle(t) ==
    /\ pc[t] = "idle"
    /\ calls < MaxCalls
    /\ calls' = calls + 1
    /\ pc' = [pc EXCEPT ![t] = "rw_lock"]
    /\ op' = [op EXCEPT ![t] = "recycle_writer"]
    /\ result' = [result EXCEPT ![t] = "none"]
    /\ UNCHANGED <<indexVars, suspended, models_len, staged, attempt, sleep_for, entries, reports,
                   recycles_triggered, queryVars, models, storeVars, readerVars,
                   retryVars, program,
                   execVars, newVars>>

\* A replace_writer that goes on without the write guard.
ReplaceAcquireMut(t) ==
    /\ pc[t] = "rw_lock"
    /\ pc' = [pc EXCEPT ![t] = "rw_take"]
    /\ UNCHANGED <<indexVars, op, models_len, staged, attempt, sleep_for, entries, result,
                   ghostVars, queryVars, models, storeVars, readerVars, retryVars, program,
                   execVars, newVars>>

\* let mut writer_lock = self.writer.write().await;
ReplaceAcquire(t) ==
    /\ pc[t] = "rw_lock"
    /\ CanWrite(t)
    /\ lock' = t
    /\ pc' = [pc EXCEPT ![t] = "rw_take"]
    /\ UNCHANGED <<entries_before_recycle, entries_processed, writer, writers_created,
                   op, models_len, staged, attempt, sleep_for, entries, result,
                   ghostVars, queryVars, models, storeVars, readerVars, retryVars, program,
                   execVars, newVars>>

\* A replace_writer that waits on the old writer while it is still in the slot.
ReplaceTakeMut(t) ==
    /\ pc[t] = "rw_take"
    /\ writer # None
    /\ uncommitted' = EmptyBuffer
    /\ pc' = [pc EXCEPT ![t] = "rw_wait"]
    /\ suspended' = suspended \cup {u \in Producers : pc[u] = "lock"}
    /\ UNCHANGED <<indexVars, op, models_len, staged, attempt, sleep_for, entries, result,
                   calls, reports, recycles_triggered, queryVars, models, committed,
                   readerVars, retryVars, program,
                   execVars, newVars>>

\* if let Some(old_writer) = writer_lock.take(): the slot becomes None. What
\* the old writer had staged and not committed is never committed: the writer
\* that is installed later starts from the committed index.
\* A slot that is already None skips the block (the state stays "rw_take").
ReplaceTake(t) ==
    /\ pc[t] = "rw_take"
    /\ writer # None
    /\ writer' = None
    /\ uncommitted' = EmptyBuffer
    /\ pc' = [pc EXCEPT ![t] = "rw_wait"]
    /\ suspended' = suspended \cup {u \in Producers : pc[u] = "lock"}
    /\ UNCHANGED <<entries_before_recycle, entries_processed, lock, writers_created,
                   op, models_len, staged, attempt, sleep_for, entries, result,
                   calls, reports, recycles_triggered, queryVars, models, committed,
                   readerVars, retryVars, program,
                   execVars, newVars>>

\* old_writer.wait_merging_threads() returns Ok.
ReplaceWaitOk(t) ==
    /\ pc[t] = "rw_wait"
    /\ pc' = [pc EXCEPT ![t] = "rw_new"]
    /\ UNCHANGED <<indexVars, op, models_len, staged, attempt, sleep_for, entries, result,
                   ghostVars, queryVars, models, storeVars, readerVars, retryVars, program,
                   execVars, newVars>>

\* A failing wait_merging_threads that takes the last commit back.
ReplaceWaitErrUndoMut(t) ==
    /\ pc[t] = "rw_wait"
    /\ lock' = NoTask
    /\ committed' = NoDocs
    /\ Return(t, "Err")
    /\ UNCHANGED <<entries_before_recycle, entries_processed, writer, writers_created,
                   calls, reports, recycles_triggered, queryVars, uncommitted, readerVars,
                   retryVars, program,
                   execVars, newVars>>

\* A failing wait_merging_threads that puts the counter back at the
\* threshold, so that the next report tries the recycle again.
ReplaceWaitErrRearmMut(t) ==
    /\ pc[t] = "rw_wait"
    /\ lock' = NoTask
    /\ entries_processed' = entries_before_recycle
    /\ Return(t, "Err")
    /\ UNCHANGED <<entries_before_recycle, writer, writers_created,
                   calls, reports, recycles_triggered, queryVars, storeVars, readerVars,
                   retryVars, program,
                   execVars, newVars>>

\* A replace_writer that swallows the error of wait_merging_threads.
ReplaceWaitErrMut(t) ==
    /\ pc[t] = "rw_wait"
    /\ lock' = NoTask
    /\ Return(t, "Ok")
    /\ UNCHANGED <<entries_before_recycle, entries_processed, writer, writers_created,
                   calls, reports, recycles_triggered, queryVars, storeVars, readerVars,
                   retryVars, program,
                   execVars, newVars>>

\* old_writer.wait_merging_threads()? returns Err: replace_writer returns the
\* error with the slot None; the guard is dropped.
ReplaceWaitErr(t) ==
    /\ pc[t] = "rw_wait"
    /\ lock' = NoTask
    /\ Return(t, "Err")
    /\ UNCHANGED <<entries_before_recycle, entries_processed, writer, writers_created,
                   calls, reports, recycles_triggered, queryVars, storeVars, readerVars,
                   retryVars, program,
                   execVars, newVars>>

\* The position of replace_writer at `self.index.writer(self.mem_budget)?`.
AtNewWriter(t) == pc[t] = "rw_new" \/ (pc[t] = "rw_take" /\ writer = None)

\* An install that also zeroes the counter.
ReplaceInstallResetMut(t) ==
    /\ AtNewWriter(t)
    /\ writers_created' = writers_created + 1
    /\ writer' = writers_created + 1
    /\ entries_processed' = 0
    /\ lock' = NoTask
    /\ Return(t, "Ok")
    /\ UNCHANGED <<entries_before_recycle,
                   calls, reports, recycles_triggered, queryVars, storeVars, readerVars,
                   retryVars, program,
                   execVars, newVars>>

\* An install that builds a new reader too, as recycle_self does
\* (recycling_index.rs:214-226).
ReplaceInstallReloadMut(t) ==
    /\ AtNewWriter(t)
    /\ writers_created' = writers_created + 1
    /\ writer' = writers_created + 1
    /\ searcher' = [gen |-> Len(reports), docs |-> committed]
    /\ lock' = NoTask
    /\ Return(t, "Ok")
    /\ UNCHANGED <<entries_before_recycle, entries_processed,
                   calls, reports, recycles_triggered, queryVars, storeVars, q_searcher,
                   retryVars, program,
                   execVars, newVars>>

\* self.index.writer(mem_budget) returns Ok: *writer_lock = Some(new_writer); Ok(()).
ReplaceInstall(t) ==
    /\ AtNewWriter(t)
    /\ writers_created' = writers_created + 1
    /\ writer' = writers_created + 1
    /\ lock' = NoTask
    /\ Return(t, "Ok")
    /\ UNCHANGED <<entries_before_recycle, entries_processed,
                   calls, reports, recycles_triggered, queryVars, storeVars, readerVars,
                   retryVars, program,
                   execVars, newVars>>

\* self.index.writer(mem_budget)? returns Err: the slot stays None.
ReplaceNewErr(t) ==
    /\ AtNewWriter(t)
    /\ lock' = NoTask
    /\ Return(t, "Err")
    /\ UNCHANGED <<entries_before_recycle, entries_processed, writer, writers_created,
                   calls, reports, recycles_triggered, queryVars, storeVars, readerVars,
                   retryVars, program,
                   execVars, newVars>>

(***************************************************************************)
(* SearchIndex::query (search_index.rs:148-154) and QueryBuilder::execute  *)
(* (builder.rs:34-46).                                                     *)
(***************************************************************************)
\* The max_results of the queries of a specification in which the results
\* of queries play no role.
SomeMaxResults == 1

\* The DocAddress of every document a searcher holds: the term it is stored
\* under and its position there.
Addresses(docs) == UNION {{<<k, i>> : i \in 1..Len(docs[k])} : k \in Keys}

\* searcher.doc(address) returning Ok.
Doc(docs, address) == docs[address[1]][address[2]]

Min(a, b) == IF a <= b THEN a ELSE b

\* The sequences of n different elements of set.
Arrangements(set, n) ==
    {sq \in [1..n -> set] : \A i, j \in 1..n : i < j => sq[i] # sq[j]}

\* searcher.search(query, &TopDocs::with_limit(max_results)) returning Ok: for
\* whatever the query matches and however the engine scores it, at most
\* max_results (score, address) pairs of different documents of the
\* searcher, in descending order of score (the scores n, .., 1 here).
SearchResults(docs, max_results) ==
    UNION {{[i \in 1..n |-> [score |-> n + 1 - i, address |-> sq[i]]]
                : sq \in Arrangements(Addresses(docs), n)}
           : n \in 0..Min(max_results, Cardinality(Addresses(docs)))}

\* A decode that drops the score of the hit.
DecodeMut(doc, score) == [model |-> from_document(doc), score |-> 1]

\* M::from_document(doc, score) (builder.rs:42): the model of the stored
\* fields, with the score of the hit.
Decode(doc, score) == [model |-> from_document(doc), score |-> score]

\* No query is being executed by the task: the locals of execute are dead.
ExecuteOver(q) ==
    /\ q_max_results' = [q_max_results EXCEPT ![q] = 0]
    /\ q_hits' = [q_hits EXCEPT ![q] = << >>]
    /\ q_models' = [q_models EXCEPT ![q] = << >>]

\* A query() that reads the searcher through the slot's lock, as
\* RecyclingSearchIndex::query does (recycling_index.rs:165).
QueryStartMut(q, max_results) ==
    /\ qpc[q] = "idle"
    /\ lock = NoTask
    /\ writer # None
    /\ qpc' = [qpc EXCEPT ![q] = "built"]
    /\ q_searcher' = [q_searcher EXCEPT ![q] = searcher]
    /\ q_max_results' = [q_max_results EXCEPT ![q] = max_results]
    /\ q_result' = [q_result EXCEPT ![q] = NoResult]
    /\ UNCHANGED <<indexVars, taskVars, ghostVars, models, storeVars, searcher,
                   retryVars, program, q_hits, q_models, newVars>>

\* query(query, max_results): self.reader.searcher() and QueryBuilder::new. No
\* lock of the slot is taken.
QueryStart(q, max_results) ==
    /\ qpc[q] = "idle"
    /\ qpc' = [qpc EXCEPT ![q] = "built"]
    /\ q_searcher' = [q_searcher EXCEPT ![q] = searcher]
    /\ q_max_results' = [q_max_results EXCEPT ![q] = max_results]
    /\ q_result' = [q_result EXCEPT ![q] = NoResult]
    /\ UNCHANGED <<indexVars, taskVars, ghostVars, models, storeVars, searcher,
                   retryVars, program, q_hits, q_models, newVars>>

\* A reload that notices the commit and keeps the documents it had.
ReaderReloadMut ==
    /\ searcher.gen # Len(reports)
    /\ searcher' = [gen |-> Len(reports), docs |-> searcher.docs]
    /\ UNCHANGED <<indexVars, taskVars, ghostVars, queryVars, models, storeVars,
                   q_searcher, retryVars, program, execVars, newVars>>

\* The reader's background reload (ReloadPolicy::OnCommitWithDelay,
\* search_index.rs:51-55): some time after a commit the reader loads the
\* committed index (reports has one entry per successful commit); searchers
\* obtained earlier keep what they hold.
ReaderReload ==
    /\ searcher.gen # Len(reports)
    /\ searcher' = [gen |-> Len(reports), docs |-> committed]
    /\ UNCHANGED <<indexVars, taskVars, ghostVars, queryVars, models, storeVars,
                   q_searcher, retryVars, program, execVars, newVars>>

\* execute() from its call to its end, the caller dropping what it returns:
\* it reads the searcher the builder owns and changes nothing the other tasks
\* can see.
QueryExecute(q) ==
    /\ qpc[q] = "built"
    /\ qpc' = [qpc EXCEPT ![q] = "idle"]
    /\ ExecuteOver(q)
    /\ UNCHANGED <<indexVars, taskVars, ghostVars, models, storeVars, readerVars,
                   retryVars, program, q_result, newVars>>

\* execute(), step by step. self.searcher.search(..)? returns Ok(documents).
QuerySearchOk(q) ==
    /\ qpc[q] = "built"
    /\ \E hits \in SearchResults(q_searcher[q].docs, q_max_results[q]) :
            q_hits' = [q_hits EXCEPT ![q] = hits]
    /\ qpc' = [qpc EXCEPT ![q] = "fetch"]
    /\ UNCHANGED <<indexVars, taskVars, ghostVars, models, storeVars, readerVars,
                   retryVars, program, q_max_results, q_models, q_result, newVars>>

\* self.searcher.search(..)? returns Err: execute returns the error.
QuerySearchErr(q) ==
    /\ qpc[q] = "built"
    /\ qpc' = [qpc EXCEPT ![q] = "idle"]
    /\ q_result' = [q_result EXCEPT ![q] = Err(0)]
    /\ ExecuteOver(q)
    /\ UNCHANGED <<indexVars, taskVars, ghostVars, models, storeVars, readerVars,
                   retryVars, program, newVars>>

\* The next (score, address) of documents.into_iter() at the closure of map.
NextHit(q) == q_hits[q][Len(q_models[q]) + 1]

\* A closure that fetches from the searcher the reader has now, as
\* scored_doc_to_model does (search_index.rs:156-163).
QueryFetchOkMut(q) ==
    /\ qpc[q] = "fetch"
    /\ Len(q_models[q]) < Len(q_hits[q])
    /\ NextHit(q).address \in Addresses(searcher.docs)
    /\ q_models' = [q_models EXCEPT ![q] =
            Append(@, Decode(Doc(searcher.docs, NextHit(q).address), NextHit(q).score))]
    /\ UNCHANGED <<indexVars, taskVars, ghostVars, queryVars, models, storeVars, readerVars,
                   retryVars, program, q_max_results, q_hits, q_result, newVars>>

\* One call of the closure of map: self.searcher.doc(address) returns Ok and
\* M::from_document(doc, score) is the next model.
QueryFetchOk(q) ==
    /\ qpc[q] = "fetch"
    /\ Len(q_models[q]) < Len(q_hits[q])
    /\ q_models' = [q_models EXCEPT ![q] =
            Append(@, Decode(Doc(q_searcher[q].docs, NextHit(q).address), NextHit(q).score))]
    /\ UNCHANGED <<indexVars, taskVars, ghostVars, queryVars, models, storeVars, readerVars,
                   retryVars, program, q_max_results, q_hits, q_result, newVars>>

\* self.searcher.doc(address) returns Err: unwrap() panics.
QueryFetchErr(q) ==
    /\ qpc[q] = "fetch"
    /\ Len(q_models[q]) < Len(q_hits[q])
    /\ qpc' = [qpc EXCEPT ![q] = "panicked"]
    /\ q_result' = [q_result EXCEPT ![q] = Panic]
    /\ ExecuteOver(q)
    /\ UNCHANGED <<indexVars, taskVars, ghostVars, models, storeVars, readerVars,
                   retryVars, program, newVars>>

\* collect() is done: Ok(models).
QueryCollect(q) ==
    /\ qpc[q] = "fetch"
    /\ Len(q_models[q]) = Len(q_hits[q])
    /\ qpc' = [qpc EXCEPT ![q] = "idle"]
    /\ q_result' = [q_result EXCEPT ![q] = Ok(q_models[q])]
    /\ ExecuteOver(q)
    /\ UNCHANGED <<indexVars, taskVars, ghostVars, models, storeVars, readerVars,
                   retryVars, program, newVars>>

(***************************************************************************)
(* SearchIndex::new (search_index.rs:36-66) and IndexWriterRecycler::new   *)
(* (writer_recycler.rs:20-29). The function returns Self: it has no error  *)
(* value to return.                                                        *)
(***************************************************************************)
\* What index_path may be when new is called: nothing, a directory without
\* an index, the index of this schema, an index persisted with another schema.
IndexPaths == {"absent", "empty_dir", "index", "other_schema"}

\* The constructor ends in step `to`, leaving the service variables alone.
NewStep(from, to, r) ==
    /\ n_pc = from
    /\ n_pc' = to
    /\ n_result' = r
    /\ UNCHANGED <<indexVars, taskVars, ghostVars, queryVars, models, storeVars,
                   readerVars, retryVars, program, execVars>>

\* if index_path.exists() (search_index.rs:39).
NewExists ==
    /\ NewStep("start", IF index_path = "absent" THEN "create_dir" ELSE "open", "none")
    /\ UNCHANGED index_path

\* Index::open_in_dir(index_path) returns Ok (search_index.rs:42): the
\* directory holds an index. The schema of M is not an argument: an index
\* persisted with another schema is opened with the schema it has.
NewOpenOk ==
    /\ index_path \in {"index", "other_schema"}
    /\ NewStep("open", "reader", "none")
    /\ UNCHANGED index_path

\* Index::open_in_dir(index_path) returns Err (no meta.json in the directory,
\* an unreadable one): index.unwrap() panics (search_index.rs:49).
NewOpenErr ==
    /\ NewStep("open", "done", "panic")
    /\ UNCHANGED index_path

\* fs::create_dir_all(index_path) returns Ok (search_index.rs:46).
NewCreateDirOk ==
    /\ NewStep("create_dir", "create", "none")
    /\ index_path' = "empty_dir"

\* fs::create_dir_all(index_path) returns Err: expect() panics
\* (search_index.rs:46).
NewCreateDirErr ==
    /\ NewStep("create_dir", "done", "panic")
    /\ UNCHANGED index_path

\* Index::create_in_dir(index_path, schema) returns Ok (search_index.rs:47).
NewCreateOk ==
    /\ NewStep("create", "reader", "none")
    /\ index_path' = "index"

\* Index::create_in_dir returns Err: index.unwrap() panics (search_index.rs:49).
NewCreateErr ==
    /\ NewStep("create", "done", "panic")
    /\ UNCHANGED index_path

\* index.reader_builder()...try_into() returns Ok (search_index.rs:51-55):
\* the reader loads the committed index.
NewReaderOk ==
    /\ n_pc = "reader"
    /\ n_pc' = "writer"
    /\ searcher' = [gen |-> 0, docs |-> committed]
    /\ UNCHANGED <<indexVars, taskVars, ghostVars, queryVars, models, storeVars,
                   q_searcher, retryVars, program, execVars, index_path, n_result>>

\* try_into() returns Err: unwrap() panics (search_index.rs:55).
NewReaderErr ==
    /\ NewStep("reader", "done", "panic")
    /\ UNCHANGED index_path

\* IndexWriterRecycler::new: index.writer(mem_budget) returns Ok and the slot
\* holds Some(first writer) (writer_recycler.rs:21); new returns Self.
NewWriterOk ==
    /\ n_pc = "writer"
    /\ n_pc' = "done"
    /\ n_result' = "Ok"
    /\ writer' = 1
    /\ writers_created' = 1
    /\ UNCHANGED <<entries_before_recycle, entries_processed, lock, taskVars, ghostVars,
                   queryVars, models, storeVars, readerVars, retryVars, program,
                   execVars, index_path>>

\* index.writer(mem_budget) returns Err (the writer lock of the directory is
\* held, the budget is out of range): unwrap() panics (writer_recycler.rs:21).
NewWriterErr ==
    /\ NewStep("writer", "done", "panic")
    /\ UNCHANGED index_path

(***************************************************************************)
(* RecyclingSearchIndex (recycling_index.rs): the variant that keeps       *)
(* writer, reader and index behind one RwLock<Option<TantivyBackend>>.     *)
(* `writer` is the backend in the slot, `lock` the holder of a write guard *)
(* of self.inner. Up to the commit add, remove and remove_by_terms are     *)
(* those of SearchIndex (CallWrite, AcquireWriter, StageRecord).           *)
(***************************************************************************)
\* The holder of the write guard of self.inner when the block around the
\* commit has ended: add declares inner_lock inside the block
\* (recycling_index.rs:89-100), remove and remove_by_terms declare it before
\* the block (109-117, 131-139) and hold it until they return.
RiGuardAfterBlock(t, o) == IF o = "add" THEN NoTask ELSE t

\* The guard a returning call had is dropped.
RiGuardAtReturn(t) == IF lock = t THEN NoTask ELSE lock

\* self.commit(&mut inner.writer).await? returns Ok, writer.commit() having
\* succeeded (recycling_index.rs:99, 116, 138, 147-151); the block ends and
\* the call reaches register_entries_processed.
RiCommitOk(t) ==
    /\ pc[t] = "commit"
    /\ lock' = RiGuardAfterBlock(t, op[t])
    /\ pc' = [pc EXCEPT ![t] = "ri_fetch_add"]
    /\ staged' = [staged EXCEPT ![t] = 0]
    /\ attempt' = [attempt EXCEPT ![t] = 0]
    /\ reports' = Append(reports, models_len[t])
    /\ models' = [models EXCEPT ![t] = << >>]
    /\ committed' = Publish(committed, uncommitted)
    /\ uncommitted' = EmptyBuffer
    /\ UNCHANGED <<entries_before_recycle, entries_processed, writer, writers_created,
                   op, models_len, sleep_for, entries, result, calls, recycles_triggered,
                   suspended, queryVars, readerVars, retryVars, program, execVars, newVars>>

\* self.entries_processed.fetch_add(entries, Relaxed) (recycling_index.rs:184).
RiFetchAdd(t) ==
    /\ pc[t] = "ri_fetch_add"
    /\ entries_processed' = entries_processed + models_len[t]
    /\ pc' = [pc EXCEPT ![t] = "ri_load"]
    /\ UNCHANGED <<entries_before_recycle, writer, lock, writers_created,
                   op, models_len, staged, attempt, sleep_for, entries, result,
                   ghostVars, queryVars, models, storeVars, readerVars, retryVars, program,
                   execVars, newVars>>

\* if self.entries_processed.load(Relaxed) >= self.entries_before_recycle
\* (recycling_index.rs:185): below it the call returns Ok(()), dropping the
\* guard it may still have.
RiLoadBelow(t) ==
    /\ pc[t] = "ri_load"
    /\ ~(entries_processed >= entries_before_recycle)
    /\ lock' = RiGuardAtReturn(t)
    /\ Return(t, "Ok")
    /\ UNCHANGED <<entries_before_recycle, entries_processed, writer, writers_created,
                   calls, reports, recycles_triggered, queryVars, storeVars, readerVars,
                   retryVars, program, execVars, newVars>>

\* The load finds the threshold reached: self.recycle_self().await is called
\* and reaches self.inner.write().await (recycling_index.rs:186, 193).
RiLoadReached(t) ==
    /\ pc[t] = "ri_load"
    /\ entries_processed >= entries_before_recycle
    /\ pc' = [pc EXCEPT ![t] = "ri_lock"]
    /\ recycles_triggered' = recycles_triggered + 1
    /\ UNCHANGED <<indexVars, op, models_len, staged, attempt, sleep_for, entries, result,
                   calls, reports, suspended, queryVars, models, storeVars, readerVars,
                   retryVars, program, execVars, newVars>>

\* let mut inner_guard = self.inner.write().await (recycling_index.rs:193):
\* completes only when no other write guard exists, that of the caller
\* itself included.
RiRecycleAcquire(t) ==
    /\ pc[t] = "ri_lock"
    /\ CanWrite(t)
    /\ lock' = t
    /\ pc' = [pc EXCEPT ![t] = "ri_take"]
    /\ UNCHANGED <<entries_before_recycle, entries_processed, writer, writers_created,
                   op, models_len, staged, attempt, sleep_for, entries, result,
                   ghostVars, queryVars, models, storeVars, readerVars, retryVars, program,
                   execVars, newVars>>

\* inner_guard.take() and old_inner.writer.wait_merging_threads()? returning
\* Ok (recycling_index.rs:195-197): the slot is None, the old backend is gone.
RiRecycleTake(t) ==
    /\ pc[t] = "ri_take"
    /\ writer' = None
    /\ uncommitted' = EmptyBuffer
    /\ pc' = [pc EXCEPT ![t] = "ri_open"]
    /\ UNCHANGED <<entries_before_recycle, entries_processed, lock, writers_created,
                   op, models_len, staged, attempt, sleep_for, entries, result,
                   ghostVars, queryVars, models, committed, readerVars, retryVars, program,
                   execVars, newVars>>

\* The index is opened again, a reader and a writer are built on it and
\* installed as the new backend; recycle_self returns Ok(()) and its guard is
\* dropped (recycling_index.rs:199-227). The new reader loads the committed
\* index.
RiRecycleInstall(t) ==
    /\ pc[t] = "ri_open"
    /\ writer' = writers_created + 1
    /\ writers_created' = writers_created + 1
    /\ searcher' = [gen |-> Len(reports), docs |-> committed]
    /\ lock' = NoTask
    /\ pc' = [pc EXCEPT ![t] = "ri_store"]
    /\ UNCHANGED <<entries_before_recycle, entries_processed,
                   op, models_len, staged, attempt, sleep_for, entries, result,
                   ghostVars, queryVars, models, storeVars, q_searcher, retryVars, program,
                   execVars, newVars>>

\* self.entries_processed.store(0, Relaxed) and Ok(()) (recycling_index.rs:
\* 187-189): the call returns.
RiStore(t) ==
    /\ pc[t] = "ri_store"
    /\ entries_processed' = 0
    /\ lock' = RiGuardAtReturn(t)
    /\ Return(t, "Ok")
    /\ UNCHANGED <<entries_before_recycle, writer, writers_created,
                   calls, reports, recycles_triggered, queryVars, storeVars, readerVars,
                   retryVars, program, execVars, newVars>>

(***************************************************************************)
(* Specifications.                                                         *)
(***************************************************************************)
\* Concurrent producers and queries on one SearchIndex, with engine errors.
Init == InitIndex({ConcThreshold}) /\ InitRetryIdle /\ program = << >>

Next ==
    \/ \E t \in Producers, o \in WriteOps, n \in BatchSizes : CallWrite(t, o, SameRecords(n), MaxCalls)
    \/ \E t \in Producers : CallRecycle(t)
    \/ \E t \in Producers : AcquireWriter(t)
    \/ \E t \in Producers : UnwrapNone(t)
    \/ \E t \in Producers : StageRecord(t)
    \/ \E t \in Producers : StageFail(t)
    \/ \E t \in Producers : CommitOk(t)
    \/ \E t \in Producers : CommitErr(t)
    \/ \E t \in Producers : CommitWake(t)
    \/ \E t \in Producers : RegLoad(t)
    \/ \E t \in Producers : RegStore(t)
    \/ \E t \in Producers : RegReset(t)
    \/ \E t \in Producers : ReplaceAcquire(t)
    \/ \E t \in Producers : ReplaceTake(t)
    \/ \E t \in Producers : ReplaceWaitOk(t)
    \/ \E t \in Producers : ReplaceWaitErr(t)
    \/ \E t \in Producers : ReplaceInstall(t)
    \/ \E t \in Producers : ReplaceNewErr(t)
    \/ \E q \in Queriers : QueryStart(q, SomeMaxResults)
    \/ \E q \in Queriers : QueryExecute(q)

Spec == Init /\ [][Next]_vars

\* A step of the call task t is running: the lock is granted, an engine call
\* returns, a sleep ends, an atomic access happens.
TaskStep(t) ==
    \/ AcquireWriter(t) \/ UnwrapNone(t)
    \/ StageRecord(t) \/ StageFail(t)
    \/ CommitOk(t) \/ CommitErr(t) \/ CommitWake(t)
    \/ RegLoad(t) \/ RegStore(t) \/ RegReset(t)
    \/ ReplaceAcquire(t) \/ ReplaceTake(t)
    \/ ReplaceWaitOk(t) \/ ReplaceWaitErr(t)
    \/ ReplaceInstall(t) \/ ReplaceNewErr(t)

\* Spec with a fair lock and a fair scheduler, every engine call returning:
\* a task that can take a step again and again does take one (tokio's RwLock
\* grants the lock in FIFO order, the runtime polls every ready task).
SpecFair == Init /\ [][Next]_vars /\ \A t \in Producers : SF_vars(TaskStep(t))

\* Concurrent producers whose engine calls all succeed.
NextRace ==
    \/ \E t \in Producers, o \in WriteOps, n \in BatchSizes : CallWrite(t, o, SameRecords(n), MaxRaceCalls)
    \/ \E t \in Producers : AcquireWriter(t)
    \/ \E t \in Producers : StageRecord(t)
    \/ \E t \in Producers : CommitOk(t)
    \/ \E t \in Producers : RegLoad(t)
    \/ \E t \in Producers : RegStore(t)
    \/ \E t \in Producers : RegReset(t)
    \/ \E t \in Producers : ReplaceAcquire(t)
    \/ \E t \in Producers : ReplaceTake(t)
    \/ \E t \in Producers : ReplaceWaitOk(t)
    \/ \E t \in Producers : ReplaceInstall(t)

SpecRace == Init /\ [][NextRace]_vars

\* One producer making sequential add/remove/remove_by_terms calls, every
\* engine call succeeding.
SeqProducer == 1

InitSeq == InitIndex(Thresholds) /\ InitRetryIdle /\ program = << >>

NextSeq ==
    \/ \E o \in WriteOps, n \in SeqBatchSizes : CallWrite(SeqProducer, o, SameRecords(n), MaxSeqCalls)
    \/ AcquireWriter(SeqProducer)
    \/ StageRecord(SeqProducer)
    \/ CommitOk(SeqProducer)
    \/ RegLoad(SeqProducer)
    \/ RegStore(SeqProducer)
    \/ RegReset(SeqProducer)
    \/ ReplaceAcquire(SeqProducer)
    \/ ReplaceTake(SeqProducer)
    \/ ReplaceWaitOk(SeqProducer)
    \/ ReplaceInstall(SeqProducer)

SpecSeq == InitSeq /\ [][NextSeq]_vars

\* One call of retry_with_backoff, the closure failing or succeeding at will.
InitRetry == InitIndex({ConcThreshold}) /\ InitRetryCall /\ program = << >>

NextRetry ==
    \/ RetryAttemptOk
    \/ RetryAttemptErr
    \/ RetryWake
    \/ RetryUnreachable

SpecRetry == InitRetry /\ [][NextRetry]_vars

\* The programs of n calls, each an add, remove or remove_by_terms of one batch.
Programs(n, batches) == [1..n -> [op : WriteOps, batch : batches]]

\* The records with the primary key of SomeRecord.
SameKeyRecords == {r \in Records : r.key = SomeRecord.key}

\* One caller running its program: sequential calls of one record each, all
\* records having one primary key, every engine call succeeding, with the
\* reader reloading and queries running at any time.
InitProgram ==
    /\ InitIndex({ConcThreshold})
    /\ InitRetryIdle
    /\ program \in Programs(ProgramCalls, Batches(SameKeyRecords, {1}))

\* The caller makes the next call of its program.
ProgramCall ==
    CallWrite(SeqProducer, program[calls + 1].op, program[calls + 1].batch, Len(program))

NextProgram ==
    \/ ProgramCall
    \/ AcquireWriter(SeqProducer)
    \/ StageRecord(SeqProducer)
    \/ CommitOk(SeqProducer)
    \/ RegLoad(SeqProducer)
    \/ RegStore(SeqProducer)
    \/ RegReset(SeqProducer)
    \/ ReplaceAcquire(SeqProducer)
    \/ ReplaceTake(SeqProducer)
    \/ ReplaceWaitOk(SeqProducer)
    \/ ReplaceInstall(SeqProducer)
    \/ ReaderReload
    \/ \E q \in Queriers : QueryStart(q, SomeMaxResults)
    \/ \E q \in Queriers : QueryExecute(q)

SpecProgram == InitProgram /\ [][NextProgram]_vars

\* The records whose other fields are those of SomeRecord: one per primary key.
SameValueRecords == {r \in Records : r.val = SomeRecord.val}

\* One caller running a program over records of different keys.
InitVisibility ==
    /\ InitIndex({ConcThreshold})
    /\ InitRetryIdle
    /\ program \in Programs(ProgramCalls, Batches(SameValueRecords, {1}))

SpecVisibility == InitVisibility /\ [][NextProgram]_vars

\* One caller making sequential calls with batches of records of different
\* keys; add_document and commit may fail; the reader reloads at any time.
NextFaults ==
    \/ \E o \in WriteOps, batch \in Batches(SameValueRecords, SeqBatchSizes) :
            CallWrite(SeqProducer, o, batch, MaxCalls)
    \/ AcquireWriter(SeqProducer)
    \/ StageRecord(SeqProducer)
    \/ StageFail(SeqProducer)
    \/ CommitOk(SeqProducer)
    \/ CommitErr(SeqProducer)
    \/ CommitWake(SeqProducer)
    \/ RegLoad(SeqProducer)
    \/ RegStore(SeqProducer)
    \/ RegReset(SeqProducer)
    \/ ReplaceAcquire(SeqProducer)
    \/ ReplaceTake(SeqProducer)
    \/ ReplaceWaitOk(SeqProducer)
    \/ ReplaceInstall(SeqProducer)
    \/ ReaderReload

SpecFaults == Init /\ [][NextFaults]_vars

\* One caller running a program of calls of one record each; add_document
\* and commit may fail, the backoff sleeps draw any jitter.
NextCommit ==
    \/ ProgramCall
    \/ AcquireWriter(SeqProducer)
    \/ StageRecord(SeqProducer)
    \/ StageFail(SeqProducer)
    \/ CommitOk(SeqProducer)
    \/ CommitErrJitter(SeqProducer)
    \/ CommitWake(SeqProducer)
    \/ RegLoad(SeqProducer)
    \/ RegStore(SeqProducer)
    \/ RegReset(SeqProducer)
    \/ ReplaceAcquire(SeqProducer)
    \/ ReplaceTake(SeqProducer)
    \/ ReplaceWaitOk(SeqProducer)
    \/ ReplaceInstall(SeqProducer)

SpecCommit == InitVisibility /\ [][NextCommit]_vars

\* A record with primary key k whose other fields no earlier call has written.
FreshRecord(k) == [key |-> k, val |-> calls + 1]

\* The task whose query is executed step by step.
SeqQuerier == 1

\* A SearchIndex opened on an existing index: one caller adds single records
\* of any key and removes the record of the last key, every engine call of the writer succeeding, the reader
\* reloads at any time, and one query task calls query and execute, whose
\* search and document fetches may fail.
InitQuery == InitIndexOn({ConcThreshold}, ExistingIndexes) /\ InitRetryIdle /\ program = << >>

NextQuery ==
    \/ \E k \in Keys : CallWrite(SeqProducer, "add", <<FreshRecord(k)>>, MaxCalls)
    \/ CallWrite(SeqProducer, "remove", <<FreshRecord(NumKeys)>>, MaxCalls)
    \/ AcquireWriter(SeqProducer)
    \/ StageRecord(SeqProducer)
    \/ CommitOk(SeqProducer)
    \/ RegLoad(SeqProducer)
    \/ RegStore(SeqProducer)
    \/ RegReset(SeqProducer)
    \/ ReplaceAcquire(SeqProducer)
    \/ ReplaceTake(SeqProducer)
    \/ ReplaceWaitOk(SeqProducer)
    \/ ReplaceInstall(SeqProducer)
    \/ ReaderReload
    \/ \E max_results \in 1..MaxResults : QueryStart(SeqQuerier, max_results)
    \/ QuerySearchOk(SeqQuerier)
    \/ QuerySearchErr(SeqQuerier)
    \/ QueryFetchOk(SeqQuerier)
    \/ QueryFetchErr(SeqQuerier)
    \/ QueryCollect(SeqQuerier)

SpecQuery == InitQuery /\ [][NextQuery]_vars

\* SearchIndex::new is called on a path: the directory holds what an earlier
\* process left, there is no writer, no reader and no task yet.
InitNew ==
    /\ index_path \in IndexPaths
    /\ n_pc = "start"
    /\ n_result = "none"
    /\ entries_before_recycle = ConcThreshold
    /\ entries_processed = 0
    /\ writer = None
    /\ lock = NoTask
    /\ writers_created = 0
    /\ pc = [t \in Producers |-> "idle"]
    /\ op = [t \in Producers |-> "none"]
    /\ models_len = [t \in Producers |-> 0]
    /\ staged = [t \in Producers |-> 0]
    /\ attempt = [t \in Producers |-> 0]
    /\ sleep_for = [t \in Producers |-> 0]
    /\ entries = [t \in Producers |-> 0]
    /\ result = [t \in Producers |-> "none"]
    /\ calls = 0
    /\ reports = << >>
    /\ recycles_triggered = 0
    /\ suspended = {}
    /\ qpc = [q \in Queriers |-> "idle"]
    /\ models = [t \in Producers |-> << >>]
    /\ committed \in (IF index_path \in {"index", "other_schema"} THEN ExistingIndexes
                                                                    ELSE {NoDocs})
    /\ uncommitted = EmptyBuffer
    /\ searcher = NoSearcher
    /\ q_searcher = [q \in Queriers |-> NoSearcher]
    /\ q_max_results = [q \in Queriers |-> 0]
    /\ q_hits = [q \in Queriers |-> << >>]
    /\ q_models = [q \in Queriers |-> << >>]
    /\ q_result = [q \in Queriers |-> NoResult]
    /\ InitRetryIdle
    /\ program = << >>

\* The constructor, each of its engine and file-system calls succeeding or
\* failing, and then one caller adding and removing single records on the
\* SearchIndex it returned.
NextNew ==
    \/ NewExists
    \/ NewOpenOk
    \/ NewOpenErr
    \/ NewCreateDirOk
    \/ NewCreateDirErr
    \/ NewCreateOk
    \/ NewCreateErr
    \/ NewReaderOk
    \/ NewReaderErr
    \/ NewWriterOk
    \/ NewWriterErr
    \/ /\ n_result = "Ok"
       /\ \E o \in {"add", "remove"}, k \in Keys :
                CallWrite(SeqProducer, o, <<FreshRecord(k)>>, MaxCalls)
    \/ AcquireWriter(SeqProducer)
    \/ StageRecord(SeqProducer)
    \/ CommitOk(SeqProducer)
    \/ RegLoad(SeqProducer)
    \/ RegStore(SeqProducer)
    \/ RegReset(SeqProducer)
    \/ ReplaceAcquire(SeqProducer)
    \/ ReplaceTake(SeqProducer)
    \/ ReplaceWaitOk(SeqProducer)
    \/ ReplaceInstall(SeqProducer)
    \/ ReaderReload

SpecNew == InitNew /\ [][NextNew]_vars

\* One caller making sequential calls on a RecyclingSearchIndex, every engine
\* call succeeding; the reader reloads at any time.
NextRecyclingIndex ==
    \/ \E o \in WriteOps, n \in SeqBatchSizes :
            CallWrite(SeqProducer, o, SameRecords(n), MaxSeqCalls)
    \/ AcquireWriter(SeqProducer)
    \/ StageRecord(SeqProducer)
    \/ RiCommitOk(SeqProducer)
    \/ RiFetchAdd(SeqProducer)
    \/ RiLoadBelow(SeqProducer)
    \/ RiLoadReached(SeqProducer)
    \/ RiRecycleAcquire(SeqProducer)
    \/ RiRecycleTake(SeqProducer)
    \/ RiRecycleInstall(SeqProducer)
    \/ RiStore(SeqProducer)
    \/ ReaderReload

SpecRecyclingIndex == InitSeq /\ [][NextRecyclingIndex]_vars

\* One caller making sequential calls, add_document and commit failing at
\* will, who may also force a recycle with recycle_writer.
NextLeftovers ==
    \/ \E o \in WriteOps, batch \in Batches(SameValueRecords, SeqBatchSizes) :
            CallWrite(SeqProducer, o, batch, MaxCalls)
    \/ CallRecycle(SeqProducer)
    \/ AcquireWriter(SeqProducer)
    \/ StageRecord(SeqProducer)
    \/ StageFail(SeqProducer)
    \/ CommitOk(SeqProducer)
    \/ CommitErr(SeqProducer)
    \/ CommitWake(SeqProducer)
    \/ RegLoad(SeqProducer)
    \/ RegStore(SeqProducer)
    \/ RegReset(SeqProducer)
    \/ ReplaceAcquire(SeqProducer)
    \/ ReplaceTake(SeqProducer)
    \/ ReplaceWaitOk(SeqProducer)
    \/ ReplaceInstall(SeqProducer)
    \/ ReaderReload

SpecLeftovers == Init /\ [][NextLeftovers]_vars

\* One caller making sequential calls, recycle_writer among them, every
\* engine call of the writer succeeding and those of replace_writer
\* (wait_merging_threads, index.writer) failing at will; the reader reloads
\* at any time.
NextRecycleFaults ==
    \/ \E o \in WriteOps, n \in SeqBatchSizes :
            CallWrite(SeqProducer, o, SameRecords(n), MaxSeqCalls)
    \/ CallRecycle(SeqProducer)
    \/ AcquireWriter(SeqProducer)
    \/ UnwrapNone(SeqProducer)
    \/ StageRecord(SeqProducer)
    \/ CommitOk(SeqProducer)
    \/ RegLoad(SeqProducer)
    \/ RegStore(SeqProducer)
    \/ RegReset(SeqProducer)
    \/ ReplaceAcquire(SeqProducer)
    \/ ReplaceTake(SeqProducer)
    \/ ReplaceWaitOk(SeqProducer)
    \/ ReplaceWaitErr(SeqProducer)
    \/ ReplaceInstall(SeqProducer)
    \/ ReplaceNewErr(SeqProducer)
    \/ ReaderReload

SpecRecycleFaults == InitSeq /\ [][NextRecycleFaults]_vars

\* Concurrent producers adding and removing single records, every call
\* writing a record of its own, interleaved with recycle_writer calls and with
\* threshold-triggered recycles; every engine call succeeds; the reader
\* reloads at any time.
NextRecycle ==
    \/ \E t \in Producers, o \in {"add", "remove"}, k \in Keys :
            CallWrite(t, o, <<FreshRecord(k)>>, MaxCalls)
    \/ \E t \in Producers : CallRecycle(t)
    \/ \E t \in Producers : AcquireWriter(t)
    \/ \E t \in Producers : StageRecord(t)
    \/ \E t \in Producers : CommitOk(t)
    \/ \E t \in Producers : RegLoad(t)
    \/ \E t \in Producers : RegStore(t)
    \/ \E t \in Producers : RegReset(t)
    \/ \E t \in Producers : ReplaceAcquire(t)
    \/ \E t \in Producers : ReplaceTake(t)
    \/ \E t \in Producers : ReplaceWaitOk(t)
    \/ \E t \in Producers : ReplaceInstall(t)
    \/ ReaderReload

SpecRecycle == Init /\ [][NextRecycle]_vars

(***************************************************************************)
(* Properties.                                                             *)
(***************************************************************************)
RECURSIVE SumSeq(_)
SumSeq(sq) == IF sq = << >> THEN 0 ELSE sq[1] + SumSeq(Tail(sq))

Front(sq) == SubSeq(sq, 1, Len(sq) - 1)

\* No call is inside register_entries_processed.
NoRegisterRunning == \A t \in Producers : pc[t] \notin {"reg_load", "reg_store"}

\* Task t holds mutable access to the slot: it stages, commits, sleeps between
\* commit attempts, or is inside replace_writer after its write().await.
InSlot(t) == pc[t] \in {"stage", "commit", "sleep", "rw_take", "rw_wait", "rw_new"}

\* C1: concurrent calls that together take the counter across
\* entries_before_recycle trigger one writer replacement, not one per caller:
\* every replacement triggered by register_entries_processed accounts for more
\* than entries_before_recycle reported entries of its own.
C1_OneRecyclePerCrossing ==
    recycles_triggered * (entries_before_recycle + 1) <= SumSeq(reports)

\* C2: register_entries_processed never under-counts: when no call is inside
\* it and no recycle was triggered, the counter equals the sum of all reported
\* nums.
C2_NoLostUpdate ==
    (NoRegisterRunning /\ recycles_triggered = 0) => entries_processed = SumSeq(reports)

C4_SuspendedSeesWriter ==
    \A t \in suspended : pc[t] # "panicked"

\* C5: after a failed recycle left the slot empty, a writer call made
\* afterwards keeps waiting on the slot (it neither errors nor panics) until a
\* recycle installs a writer.
C5_EmptySlotSuspends ==
    [][\A t \in Producers :
          (writer = None /\ ~RecycleInProgress /\ pc[t] = "lock" /\ t \notin suspended)
              => pc'[t] = "lock"]_vars

\* The acquisition step of a producer waiting for the slot.
ProducerAcquire(t) == AcquireWriter(t) \/ UnwrapNone(t) \/ ReplaceAcquire(t)

C8_AllFailReturnsLastErr ==
    (r_pc = "done" /\ \A i \in 1..Len(r_log) : r_log[i].kind = "Err") =>
        /\ Len(r_log) = r_max_retries
        /\ r_result.kind = "Err"
        /\ Len(r_log) >= 1
        /\ r_result = r_log[Len(r_log)]

\* C9 as stated: once exactly entries_before_recycle entries were processed by
\* sequential successful calls, the counter is zero and one recycle occurred.
C9_RecycleAtExactlyT ==
    (pc[SeqProducer] = "idle" /\ SumSeq(reports) = entries_before_recycle) =>
        /\ entries_processed = 0
        /\ recycles_triggered = 1

\* C9 amended: for sequential successful calls from counter 0, as long as the
\* total processed does not exceed entries_before_recycle the counter equals
\* the total and no recycle occurred; after the call that first takes the
\* total above entries_before_recycle the counter is zero and exactly one
\* recycle occurred. With T = 3: add([A]) leaves 1, add([B,C]) leaves 3 with
\* no recycle, add([D]) fires the recycle and leaves 0.
C9_RecycleWhenExceedingT ==
    pc[SeqProducer] = "idle" =>
        LET total == SumSeq(reports)
            T == entries_before_recycle
        IN  /\ total <= T =>
                /\ entries_processed = total
                /\ recycles_triggered = 0
                /\ writers_created = 1
            /\ (total > T /\ SumSeq(Front(reports)) <= T) =>
                /\ entries_processed = 0
                /\ recycles_triggered = 1
                /\ writers_created = 2
                /\ writer = 2
            /\ (T = 3 /\ reports = <<1>>) =>
                (entries_processed = 1 /\ recycles_triggered = 0)
            /\ (T = 3 /\ reports = <<1, 2>>) =>
                (entries_processed = 3 /\ recycles_triggered = 0)
            /\ (T = 3 /\ reports = <<1, 2, 1>>) =>
                (entries_processed = 0 /\ recycles_triggered = 1)

\* C9 witness: T = 3 and the calls add([A]), add([B,C]), add([D]) are over.
C9_Witness ==
    /\ pc[SeqProducer] = "idle"
    /\ entries_before_recycle = 3
    /\ reports = <<1, 2, 1>>
    /\ entries_processed = 0
    /\ recycles_triggered = 1

\* C10: a sequential register_entries_processed(n) at counter c triggers a
\* recycle and zeroes the counter if c + n > entries_before_recycle, and
\* otherwise stores c + n and triggers nothing.
C10_RegisterSequential ==
    [][(pc[SeqProducer] = "reg_store" /\ pc'[SeqProducer] # "reg_store") =>
          IF entries_processed + models_len[SeqProducer] > entries_before_recycle
          THEN /\ entries_processed' = 0
               /\ recycles_triggered' = recycles_triggered + 1
               /\ pc'[SeqProducer] = "rw_lock"
          ELSE /\ entries_processed' = entries_processed + models_len[SeqProducer]
               /\ recycles_triggered' = recycles_triggered
               /\ pc'[SeqProducer] = "idle"
               /\ result'[SeqProducer] = "Ok"]_vars

\* C10 witness: a sequential call whose report exceeded the threshold has
\* triggered the recycle and zeroed a counter that was positive.
C10_Witness ==
    /\ pc[SeqProducer] = "rw_lock"
    /\ entries_processed = 0
    /\ recycles_triggered = 1
    /\ SumSeq(Front(reports)) > 0
    /\ SumSeq(reports) > entries_before_recycle

\* C11: immediately after any successful recycle, triggered by the threshold
\* or by recycle_writer, in any interleaving, the counter is strictly less
\* than entries_before_recycle: the step that installs the new writer ends in
\* a state with entries_processed < entries_before_recycle.
C11_CounterBelowAfterRecycle ==
    [][(writer = None /\ writer' # None) =>
          entries_processed' < entries_before_recycle]_vars

\* C12: between recycles the counter never decreases: a step that lowers
\* entries_processed is the store(0) of a call that triggers a recycle.
C12_CounterMonotone ==
    [][entries_processed' < entries_processed =>
          \E t \in Producers : pc[t] = "reg_store" /\ pc'[t] = "rw_lock"]_vars

\* The caller's program is over and every call of it succeeded.
ProgramDone ==
    /\ calls = Len(program)
    /\ pc[SeqProducer] = "idle"
    /\ result[SeqProducer] = "Ok"
    /\ Len(reports) = Len(program)

\* The last two calls of the program are o1([R]) and then o2([R2]).
LastTwoCalls(o1, R, o2, R2) ==
    /\ Len(program) >= 2
    /\ program[Len(program) - 1] = [op |-> o1, batch |-> <<R>>]
    /\ program[Len(program)] = [op |-> o2, batch |-> <<R2>>]

\* The searcher s was obtained from the reader after the reader loaded the
\* last commit.
Refreshed(s) == s.gen = Len(reports)

\* C13: upsert: after add([R]) and then add([R2]) with the key of R both
\* succeeded and the reader refreshed, a query by that key returns exactly
\* one record, equal to R2.
C13_Upsert ==
    \A R, R2 \in Records :
        (LastTwoCalls("add", R, "add", R2) /\ R.key = R2.key /\ ProgramDone) =>
            /\ Refreshed(searcher) => Execute(searcher.docs, R.key) = <<R2>>
            /\ \A q \in Queriers :
                (qpc[q] = "built" /\ Refreshed(q_searcher[q])) =>
                    Execute(q_searcher[q].docs, R.key) = <<R2>>

\* C13 witness: add([R]) and add([R2]) with one key and different values
\* succeeded, the reader refreshed and a query holds the refreshed searcher.
C13_Witness ==
    \E R, R2 \in Records, q \in Queriers :
        /\ LastTwoCalls("add", R, "add", R2) /\ R.key = R2.key /\ R.val # R2.val
        /\ ProgramDone
        /\ qpc[q] = "built" /\ Refreshed(q_searcher[q])
        /\ Execute(q_searcher[q].docs, R.key) = <<R2>>

\* C14: delete-then-query: after add([R]) and then remove([R]) both
\* succeeded and the reader refreshed, a query by the key of R returns no
\* record.
C14_DeleteThenQuery ==
    \A R \in Records :
        (LastTwoCalls("add", R, "remove", R) /\ ProgramDone) =>
            /\ Refreshed(searcher) => Execute(searcher.docs, R.key) = << >>
            /\ \A q \in Queriers :
                (qpc[q] = "built" /\ Refreshed(q_searcher[q])) =>
                    Execute(q_searcher[q].docs, R.key) = << >>

\* C14 witness: add([R]) and remove([R]) succeeded; a query that started
\* before the reader loaded the removal still holds R, the reader has
\* refreshed since and serves no record under the key.
C14_Witness ==
    \E R \in Records, q \in Queriers :
        /\ LastTwoCalls("add", R, "remove", R)
        /\ ProgramDone
        /\ Refreshed(searcher) /\ Execute(searcher.docs, R.key) = << >>
        /\ qpc[q] = "built" /\ Execute(q_searcher[q].docs, R.key) = <<R>>

\* What a successful call o(batch) makes of the index contents: every added
\* record replaces the documents of its key, every removed key has none.
RECURSIVE ApplyBatch(_, _, _)
ApplyBatch(docs, o, batch) ==
    IF batch = << >>
    THEN docs
    ELSE LET model == Head(batch)
             stored == IF o = "add" THEN <<as_document(model)>> ELSE << >>
         IN  ApplyBatch([docs EXCEPT ![model.key] = stored], o, Tail(batch))

\* C15: recycle transparency: with successful add/remove calls running
\* concurrently with threshold-triggered and forced recycles, the commit of a
\* call makes exactly the writes of its batch and no other step (a recycle in
\* particular) changes the committed contents, so no write is dropped or
\* duplicated; every key holds at most one document, and once all calls are
\* over and the reader refreshed, a query returns per key what the last
\* committed call left there.
C15_RecycleTransparency ==
    /\ [][/\ \A t \in Producers :
              (pc[t] = "commit" /\ pc'[t] = "reg_load") =>
                  committed' = ApplyBatch(committed, op[t], models[t])
          /\ (\A t \in Producers : ~(pc[t] = "commit" /\ pc'[t] = "reg_load")) =>
                  committed' = committed]_vars
    /\ [](\A k \in Keys :
            /\ Len(committed[k]) <= 1
            /\ Len(Execute(searcher.docs, k)) <= 1
            /\ ((\A t \in Producers : pc[t] = "idle") /\ Refreshed(searcher)) =>
                    /\ uncommitted = EmptyBuffer
                    /\ Execute(searcher.docs, k) = Execute(committed, k))

\* C15 witness: every producer has made a call, two calls have committed, the
\* second triggered a recycle that replaced the writer, the calls are over
\* and the reader has refreshed: a key holds, once, the record of the second
\* call.
C15_Witness ==
    /\ \A t \in Producers : pc[t] = "idle" /\ result[t] = "Ok"
    /\ Len(reports) = 2
    /\ recycles_triggered = 1
    /\ writers_created = 2
    /\ Refreshed(searcher)
    /\ \E k \in Keys : Execute(searcher.docs, k) = <<[key |-> k, val |-> 2]>>

\* The searchers in use: the reader's current one and those owned by the
\* QueryBuilders of running queries.
Snapshots == {searcher} \cup {q_searcher[q] : q \in {u \in Queriers : qpc[u] = "built"}}

\* The i-th record of the n-th call of the program.
ProgramRecord(n, i) == program[n].batch[i]

\* A write staged after the i-th record of call n, by a call committed no
\* later than commit g, has the key of that record: the record was removed
\* or replaced.
RemovedOrReplaced(n, i, g) ==
    \E m \in n..g : \E j \in 1..Len(program[m].batch) :
        /\ m > n \/ j > i
        /\ ProgramRecord(m, j).key = ProgramRecord(n, i).key

\* C16: visibility ordering: the n-th commit is seen by the reader from its
\* first reload after that commit on. A reload loads the latest commit, the
\* reader never goes back, and a query takes the reader's current searcher;
\* so a record added by the call of commit n is contained in every searcher
\* obtained after the first reload that follows the commit (every searcher
\* of generation n or later), until it is removed or replaced; a searcher
\* obtained before that reload is of an earlier generation and need not
\* contain it.
C16_VisibilityOrdering ==
    /\ [][/\ searcher'.gen >= searcher.gen
          /\ searcher' # searcher =>
                searcher' = [gen |-> Len(reports), docs |-> committed]
          /\ \A q \in Queriers :
                (qpc[q] = "idle" /\ qpc'[q] = "built") => q_searcher'[q] = searcher]_vars
    /\ [](\A s \in Snapshots : \A n \in 1..s.gen : \A i \in 1..Len(program[n].batch) :
            (program[n].op = "add" /\ ~RemovedOrReplaced(n, i, s.gen)) =>
                \E j \in 1..Len(Execute(s.docs, ProgramRecord(n, i).key)) :
                    Execute(s.docs, ProgramRecord(n, i).key)[j] = ProgramRecord(n, i))

\* C16 witness: the first call, an add, and a second call on another key have
\* committed and returned; a query that took its searcher before the first
\* reload does not see the record of the first call; the reader has reloaded
\* after the second commit and its searcher still contains the record.
C16_Witness ==
    \E q \in Queriers :
        /\ program[1].op = "add"
        /\ ProgramRecord(2, 1).key # ProgramRecord(1, 1).key
        /\ Len(reports) = 2
        /\ pc[SeqProducer] = "idle" /\ result[SeqProducer] = "Ok"
        /\ qpc[q] = "built" /\ q_searcher[q].gen = 0
        /\ Execute(q_searcher[q].docs, ProgramRecord(1, 1).key) = << >>
        /\ searcher.gen = 2
        /\ Execute(searcher.docs, ProgramRecord(1, 1).key) = <<ProgramRecord(1, 1)>>

\* Task t takes a step of its call from position `from` to position `to`.
Moves(t, from, to) == pc[t] = from /\ pc'[t] = to

\* C17: when the commit of a call fails on all 3 attempts, the call returns
\* the error and exposes nothing: a failed attempt that is retried and the
\* failed last attempt leave the committed contents and what the reader
\* serves as they were, the operations of the batch stay in the writer, not
\* committed; and the committed contents change in no other step than a
\* successful commit, so they are what they were before the call.
C17_CommitFailureExposesNothing ==
    [][/\ \A t \in Producers :
            /\ Moves(t, "commit", "idle") =>
                    /\ attempt[t] = 3
                    /\ result'[t] = "Err"
                    /\ lock' = NoTask
                    /\ <<committed, uncommitted, searcher, reports>>'
                            = <<committed, uncommitted, searcher, reports>>
            /\ Moves(t, "commit", "sleep") =>
                    /\ attempt[t] < 3
                    /\ <<committed, uncommitted, searcher, reports>>'
                            = <<committed, uncommitted, searcher, reports>>
       /\ committed' # committed => \E t \in Producers : Moves(t, "commit", "reg_load")]_vars

\* C17 witness: a first call committed a record; a second call, an add of a
\* record with another key, staged its record, its commit failed three times
\* and the call returned Err: the index and the refreshed reader hold the
\* first record only, the second is in the writer, uncommitted.
C17_Witness ==
    \E k, k2 \in Keys :
        /\ k # k2
        /\ calls = 2
        /\ Len(reports) = 1
        /\ pc[SeqProducer] = "idle" /\ result[SeqProducer] = "Err"
        /\ lock = NoTask
        /\ uncommitted.del = {k2} /\ Len(uncommitted.add[k2]) = 1
        /\ Len(committed[k]) = 1 /\ committed[k2] = << >>
        /\ Refreshed(searcher)
        /\ Len(Execute(searcher.docs, k)) = 1 /\ Execute(searcher.docs, k2) = << >>

\* The writer's buffer after the first n iterations of the loop of o(batch).
RECURSIVE StagePrefix(_, _, _, _)
StagePrefix(buf, o, batch, n) ==
    IF n = 0
    THEN buf
    ELSE StageModel(StagePrefix(buf, o, batch, n - 1), o, batch[n])

\* C18: when add_document fails for the i-th record, add aborts at once: it
\* returns Err and releases the lock, no commit was or is attempted, no later
\* record is staged, nothing is committed; the deletions of records 1..i and
\* the documents of records 1..i-1 stay in the writer, uncommitted. (For the
\* first call, whose writer was empty, the buffer is exactly that.)
C18_AddAbortsOnFailedRecord ==
    [][\A t \in Producers :
          (op[t] = "add" /\ Moves(t, "stage", "idle")) =>
              LET i == staged[t] + 1
                  batch == models[t]
              IN  /\ result'[t] = "Err"
                  /\ lock = t /\ lock' = NoTask
                  /\ attempt[t] = 0
                  /\ <<committed, searcher, reports>>' = <<committed, searcher, reports>>
                  /\ \A j \in 1..i : batch[j].key \in uncommitted'.del
                  /\ \A j \in 1..(i - 1) :
                        (\A m \in (j + 1)..i : batch[m].key # batch[j].key) =>
                            uncommitted'.add[batch[j].key] = <<as_document(batch[j])>>
                  /\ uncommitted'.add[batch[i].key] = << >>
                  /\ calls = 1 =>
                        uncommitted' = delete_term(StagePrefix(EmptyBuffer, "add", batch, i - 1),
                                                   batch[i].key)]_vars

\* C18 witness: the first call, an add of two records with different keys,
\* failed on its second record and returned Err: the lock is free, nothing is
\* committed, the writer holds both deletions and the first document.
C18_Witness ==
    \E k, k2 \in Keys :
        /\ k # k2
        /\ calls = 1
        /\ pc[SeqProducer] = "idle" /\ result[SeqProducer] = "Err"
        /\ lock = NoTask
        /\ reports = << >>
        /\ committed = NoDocs
        /\ uncommitted.del = {k, k2}
        /\ Len(uncommitted.add[k]) = 1 /\ uncommitted.add[k2] = << >>

\* Task t is inside replace_writer, holding the write guard.
InReplace(t) == pc[t] \in {"rw_take", "rw_wait", "rw_new"}

\* C19: a failure inside a recycle is never swallowed: the call whose
\* replace_writer ends without a writer in the slot (wait_merging_threads or
\* index.writer failed), be it an add/remove/remove_by_terms through
\* register_entries_processed or an explicit recycle_writer, returns Err;
\* and a call returns Ok from replace_writer only with a new writer installed.
C19_RecycleFailureReturned ==
    [][\A t \in Producers :
          (InReplace(t) /\ pc'[t] = "idle") =>
              /\ writer' = None => result'[t] = "Err"
              /\ result'[t] = "Ok" => (writer' # None /\ writer' # writer)
              /\ result'[t] \in {"Ok", "Err"}]_vars

\* C19 witness: two calls committed, the report of one of them triggered a
\* recycle that failed: that call returned Err although its commit
\* succeeded, and the slot is empty.
C19_Witness ==
    /\ writer = None
    /\ recycles_triggered = 1
    /\ Len(reports) = 2
    /\ \A t \in Producers : pc[t] = "idle"
    /\ \E t \in Producers : result[t] = "Err"

\* The call of task t is over: it returned Ok or Err.
Returned(t) == pc[t] = "idle" /\ result[t] \in {"Ok", "Err"}

\* C20: every add/remove/remove_by_terms call that has reached the slot
\* eventually returns Ok or Err, and no call ends in a third way: no task
\* panics or waits forever.
C20_CallsTerminate ==
    /\ \A t \in Producers : (pc[t] = "lock") ~> Returned(t)
    /\ [](\A t \in Producers : pc[t] # "panicked" /\ result[t] # "panic")

\* The IndexWriter instances of the index that exist: the one in the slot and
\* the old_writer a replace_writer has taken out and is waiting on
\* (wait_merging_threads consumes it).
LiveWriters ==
    (IF writer = None THEN 0 ELSE 1) + Cardinality({t \in Producers : pc[t] = "rw_wait"})

\* C21: replace_writer takes the old writer out of the slot, waits for its
\* merging threads, constructs the new writer and installs it, in this order
\* and under one hold of the write guard: every step of a replace_writer goes
\* to the next position of that order (or returns the error of the step), the
\* guard is acquired at the start and kept until the return, a writer is
\* constructed only while no IndexWriter exists; and in every state at most
\* one IndexWriter exists.
C21_ReplaceOrder ==
    /\ [][/\ \A t \in Producers :
              /\ (pc[t] = "rw_lock" /\ pc'[t] # "rw_lock") =>
                    /\ pc'[t] = "rw_take"
                    /\ lock = NoTask /\ lock' = t
                    /\ writer' = writer
              /\ (pc[t] = "rw_take" /\ pc'[t] # "rw_take" /\ writer # None) =>
                    /\ pc'[t] = "rw_wait"
                    /\ writer' = None
                    /\ lock' = t
              /\ (pc[t] = "rw_wait" /\ pc'[t] # "rw_wait") =>
                    /\ writer = None /\ writer' = None
                    /\ \/ pc'[t] = "rw_new" /\ lock' = t
                       \/ pc'[t] = "idle" /\ result'[t] = "Err" /\ lock' = NoTask
              /\ ((pc[t] = "rw_new" \/ (pc[t] = "rw_take" /\ writer = None)) /\ pc'[t] # pc[t]) =>
                    /\ pc'[t] = "idle"
                    /\ lock' = NoTask
                    /\ \/ result'[t] = "Ok" /\ writer' = writers_created + 1
                       \/ result'[t] = "Err" /\ writer' = None
          /\ writers_created' # writers_created =>
                /\ LiveWriters = 0
                /\ writers_created' = writers_created + 1
                /\ writer' = writers_created'
                /\ \E t \in Producers : lock = t /\ AtNewWriter(t)
          /\ writer' # writer =>
                \E t \in Producers : lock = t /\ (pc[t] = "rw_take" \/ AtNewWriter(t))]_vars
    /\ [](/\ LiveWriters <= 1
          /\ \A t \in Producers : InReplace(t) => lock = t)

\* C21 witness: a replace_writer has taken the old writer and waited for its
\* merging threads; it holds the guard, no IndexWriter exists and it is about
\* to construct the new one, while another call waits for the slot.
C21_Witness ==
    \E t, u \in Producers :
        /\ t # u
        /\ pc[t] = "rw_new" /\ lock = t
        /\ writer = None /\ LiveWriters = 0
        /\ writers_created = 1
        /\ pc[u] \in {"lock", "rw_lock"}

RECURSIVE Pow2(_)
Pow2(n) == IF n = 0 THEN 1 ELSE 2 * Pow2(n - 1)

\* The un-jittered delay of the sleep that follows the i-th failed attempt.
BaseDelay(initial_delay, i) == initial_delay * Pow2(i - 1)

\* C22: backoff schedule of retry_with_backoff: the i-th sleep follows the
\* i-th failed attempt and lasts initial_delay * 2^(i-1) * jitter with jitter
\* in [0.5, 1.5) (the product rounded down to a whole unit of Duration); the
\* un-jittered delay in use at attempt a is initial_delay * 2^(a-1).
C22_BackoffSchedule ==
    /\ r_attempt >= 1 => r_delay = BaseDelay(r_initial_delay, r_attempt)
    /\ Len(r_sleeps) <= Len(r_log)
    /\ \A i \in 1..Len(r_sleeps) :
        LET base == BaseDelay(r_initial_delay, i) IN
            /\ r_log[i].kind = "Err"
            /\ 100 * r_sleeps[i] + 99 >= 50 * base
            /\ 100 * r_sleeps[i] < 150 * base
            /\ (base % 2 = 0) => 100 * r_sleeps[i] >= 50 * base

\* C22 witness: initial_delay 100, two failed attempts: the first sleep took
\* the smallest jitter (50 = 0.5 * 100), the second nearly the largest
\* (298 = 1.49 * 200).
C22_Witness ==
    /\ r_initial_delay = 100
    /\ Len(r_log) >= 2
    /\ r_sleeps = <<50, 298>>
    /\ r_delay = 400

\* C23: every commit of add, remove and remove_by_terms runs under the policy
\* (3, 100 ms): the engine commit is tried at most 3 times per call; a failed
\* attempt with attempts left is followed by a backoff sleep of 100 ms *
\* 2^(attempt-1) * jitter, jitter in [0.5, 1.5), and by the next attempt; the
\* error is returned to the caller only by the third failed attempt; the
\* first attempt of a call has number 1.
C23_CommitRetryPolicy ==
    /\ [][\A t \in Producers :
            /\ Moves(t, "commit", "sleep") =>
                    /\ op[t] \in WriteOps
                    /\ attempt[t] < 3
                    /\ 100 * sleep_for'[t] >= 50 * 100 * Pow2(attempt[t] - 1)
                    /\ 100 * sleep_for'[t] < 150 * 100 * Pow2(attempt[t] - 1)
            /\ Moves(t, "sleep", "commit") =>
                    /\ attempt'[t] = attempt[t] + 1
                    /\ attempt'[t] <= 3
            /\ pc[t] = "sleep" => pc'[t] \in {"sleep", "commit"}
            /\ Moves(t, "commit", "idle") =>
                    /\ attempt[t] = 3
                    /\ result'[t] = "Err"
            /\ (pc[t] \in {"lock", "stage"} /\ pc'[t] = "commit") => attempt'[t] = 1
            /\ pc[t] = "commit" => pc'[t] \in {"commit", "sleep", "idle", "reg_load"}]_vars
    /\ [](\A t \in Producers :
            pc[t] \in {"commit", "sleep"} => (attempt[t] \in 1..3 /\ op[t] \in WriteOps))

\* C23 witness: the commit of a remove_by_terms call failed twice and is in
\* its second backoff sleep, of 298 ms (200 ms * 1.49).
C23_Witness ==
    \E t \in Producers :
        /\ op[t] = "remove_by_terms"
        /\ pc[t] = "sleep"
        /\ attempt[t] = 2
        /\ sleep_for[t] = 298

\* The call the sequential caller is running, or ran last, is a remove or a
\* remove_by_terms of its program.
RemovalRunning == calls >= 1 /\ program[calls].op \in {"remove", "remove_by_terms"}

\* C27: remove and remove_by_terms take the path of add without the insert:
\* holding the write guard from the first delete to the end of the commit,
\* they stage one delete_term per record or term and nothing else, staging
\* cannot fail, the commit is retried like that of add; a failed commit
\* returns the error without any report; a successful commit ends the hold,
\* and only then the number of records of the batch is reported to
\* register_entries_processed, which stores the new count or triggers a
\* recycle.
C27_RemovePath ==
    /\ [][RemovalRunning =>
            LET t == SeqProducer IN
            /\ (pc[t] = "stage" /\ staged'[t] = staged[t] + 1) =>
                    LET term == get_primary_key(models[t][staged[t] + 1]) IN
                        /\ lock = t /\ lock' = t
                        /\ uncommitted'.del = uncommitted.del \cup {term}
                        /\ uncommitted'.add = [uncommitted.add EXCEPT ![term] = << >>]
                        /\ committed' = committed
            /\ pc[t] = "stage" => pc'[t] \in {"stage", "commit"}
            /\ (pc[t] # "commit" /\ pc'[t] = "commit" /\ pc[t] # "sleep") =>
                    (staged'[t] = models_len[t] /\ lock' = t)
            /\ Moves(t, "commit", "sleep") => (lock' = t /\ attempt[t] < 3 /\ reports' = reports)
            /\ Moves(t, "commit", "idle") =>
                    /\ attempt[t] = 3 /\ result'[t] = "Err"
                    /\ lock' = NoTask
                    /\ <<reports, entries_processed, recycles_triggered, committed>>'
                            = <<reports, entries_processed, recycles_triggered, committed>>
            /\ Moves(t, "commit", "reg_load") =>
                    /\ lock = t /\ lock' = NoTask
                    /\ models_len[t] = Len(program[calls].batch)
                    /\ reports' = Append(reports, models_len[t])
            /\ (pc[t] # "reg_load" /\ pc'[t] = "reg_load") => pc[t] = "commit"
            /\ reports' # reports => Moves(t, "commit", "reg_load")
            /\ Moves(t, "reg_store", "idle") =>
                    /\ result'[t] = "Ok"
                    /\ entries_processed' = entries_processed + models_len[t]
                    /\ recycles_triggered' = recycles_triggered
            /\ Moves(t, "reg_store", "rw_lock") =>
                    /\ entries_processed + models_len[t] > entries_before_recycle
                    /\ recycles_triggered' = recycles_triggered + 1]_vars
    /\ [](RemovalRunning =>
            /\ pc[SeqProducer] \in {"stage", "commit", "sleep"} =>
                    (lock = SeqProducer /\ op[SeqProducer] = program[calls].op)
            /\ pc[SeqProducer] \in {"reg_load", "reg_store", "rw_lock"} => lock = NoTask)

\* C27 witness: a remove and then a remove_by_terms, of one record each, both
\* committed; the report of the second took the count over the threshold and
\* the recycle it triggered installed a new writer.
C27_Witness ==
    /\ program[1].op = "remove"
    /\ program[2].op = "remove_by_terms"
    /\ ProgramDone
    /\ reports = <<1, 1>>
    /\ recycles_triggered = 1
    /\ writer = 2
    /\ entries_processed = 0

\* C25: a failed fetch of the document of a hit makes execute return an Err
\* to its caller and nothing else: the task never panics in execute.
C25_FetchFailureIsErr ==
    \A q \in Queriers : qpc[q] # "panicked" /\ q_result[q].kind # "panic"

\* C26: the Ok of execute holds one record per hit of the engine's search, in
\* the order of the hits, so at most max_results of them and in descending
\* order of score; the i-th record is the decoded document of the i-th hit
\* and carries the score of the i-th hit.
C26_ExecuteResult ==
    [][\A q \in Queriers :
            (qpc[q] = "fetch" /\ qpc'[q] = "idle") =>
                LET hits == q_hits[q]
                    records == q_result'[q].value
                IN  /\ q_result'[q].kind = "Ok"
                    /\ hits \in SearchResults(q_searcher[q].docs, q_max_results[q])
                    /\ Len(records) = Len(hits)
                    /\ Len(records) <= q_max_results[q]
                    /\ \A i \in 1..Len(records) :
                            /\ records[i].score = hits[i].score
                            /\ records[i].model =
                                    from_document(Doc(q_searcher[q].docs, hits[i].address))
                    /\ \A i, j \in 1..Len(records) :
                            i < j => records[i].score >= records[j].score]_vars

\* C26 witness: execute has returned MaxResults records, the first with the
\* higher score and the higher primary key.
C26_Witness ==
    LET r == q_result[SeqQuerier] IN
        /\ qpc[SeqQuerier] = "idle"
        /\ r.kind = "Ok"
        /\ Len(r.value) = MaxResults
        /\ r.value[1].score > r.value[2].score
        /\ r.value[1].model.key > r.value[2].model.key

\* The models execute has collected are those of the documents the searcher
\* of the builder holds at the addresses of the first hits.
FromSnapshot(q) ==
    \A i \in 1..Len(q_models[q]) :
        /\ q_hits[q][i].address \in Addresses(q_searcher[q].docs)
        /\ q_models[q][i].model = from_document(Doc(q_searcher[q].docs, q_hits[q][i].address))

\* C28: from query() to the end of execute the builder keeps the searcher
\* query() captured, whatever is committed, reloaded or recycled meanwhile;
\* the hits are addresses of that searcher and every model collected, and
\* every model returned, is the document that searcher holds at the address
\* of its hit.
C28_OneSnapshot ==
    /\ [](\A q \in Queriers :
            qpc[q] = "fetch" =>
                /\ Len(q_models[q]) <= Len(q_hits[q])
                /\ \A i \in 1..Len(q_hits[q]) :
                        q_hits[q][i].address \in Addresses(q_searcher[q].docs)
                /\ FromSnapshot(q))
    /\ [][\A q \in Queriers :
            /\ (qpc[q] \in {"built", "fetch"} /\ qpc'[q] \in {"built", "fetch"}) =>
                    q_searcher'[q] = q_searcher[q]
            /\ (qpc[q] = "fetch" /\ qpc'[q] = "idle") =>
                    /\ q_searcher'[q] = q_searcher[q]
                    /\ q_result'[q].value =
                            [i \in 1..Len(q_hits[q]) |->
                                [model |-> from_document(Doc(q_searcher[q].docs,
                                                             q_hits[q][i].address)),
                                 score |-> q_hits[q][i].score]]]_vars

\* C28 witness: execute has fetched every hit of a search of two documents
\* while the reader has reloaded a later commit, after which it holds another
\* document at the address of the first hit and none at that of the second.
C28_Witness ==
    LET q == SeqQuerier IN
        /\ qpc[q] = "fetch"
        /\ Len(q_hits[q]) = 2
        /\ Len(q_models[q]) = 2
        /\ searcher.gen > q_searcher[q].gen
        /\ q_hits[q][1].address \in Addresses(searcher.docs)
        /\ Doc(searcher.docs, q_hits[q][1].address) # Doc(q_searcher[q].docs, q_hits[q][1].address)
        /\ q_hits[q][2].address \notin Addresses(searcher.docs)

\* C29: in add, remove and remove_by_terms the caller no longer holds the
\* write guard of the slot when it is in register_entries_processed, and
\* when its own report has triggered a recycle it does not hold it while it
\* waits in replace_writer for the write lock, which it can then acquire.
C29_GuardReleasedBeforeRegister ==
    \A t \in Producers :
        (op[t] # "recycle_writer" /\ pc[t] \in {"reg_load", "reg_store", "rw_lock"}) =>
            /\ lock # t
            /\ (pc[t] = "rw_lock" /\ lock = NoTask) => ENABLED ReplaceAcquire(t)

\* C29 witness: the report of a remove_by_terms has triggered a recycle and
\* the caller has acquired the write lock in replace_writer.
C29_Witness ==
    /\ calls >= 1
    /\ program[calls].op = "remove_by_terms"
    /\ pc[SeqProducer] = "rw_take"
    /\ lock = SeqProducer
    /\ reports # << >>
    /\ recycles_triggered >= 1

\* C24: SearchIndex::new never panics on an expected failure: when the
\* directory cannot be created, or the index cannot be opened or created,
\* the caller gets an error value; an index persisted with an incompatible
\* schema is not returned as a usable SearchIndex.
C24_NewReturnsErrors ==
    /\ n_result # "panic"
    /\ (n_pc = "done" /\ index_path = "other_schema") => n_result = "Err"

\* C30: in RecyclingSearchIndex a call that is in register_entries_processed,
\* or waits in recycle_self for the write lock of the backend, does not hold
\* a write guard of the backend itself, so the recycle its report triggers
\* can acquire the lock.
C30_RiGuardReleasedBeforeRegister ==
    \A t \in Producers :
        pc[t] \in {"ri_fetch_add", "ri_load", "ri_lock"} =>
            /\ lock # t
            /\ (pc[t] = "ri_lock" /\ lock = NoTask) => ENABLED RiRecycleAcquire(t)

\* C31: the unreachable!() after the loop of retry_with_backoff and of
\* retry_with_backoff_async is never reached: whatever max_retries is and
\* whatever the attempts return, the call does not end in its panic.
C31_UnreachableNeverReached ==
    r_result.kind # "panic"

\* The attempts of the log that failed.
Failures == {i \in 1..Len(r_log) : r_log[i].kind = "Err"}

\* C32: retry_with_backoff sleeps only between attempts. A sleep starts only
\* at a failed attempt that another attempt follows, and every such attempt
\* starts one; so at every moment there is one sleep per attempt that has a
\* successor, a call that returns Ok after f failures has slept f times, a
\* call that returns the last error has slept max_retries - 1 times, and once
\* the call is over nothing is slept.
C32_SleepsBetweenAttempts ==
    /\ [](/\ r_pc = "attempt" => (Len(r_sleeps) = Len(r_log) /\ Len(r_log) = r_attempt - 1)
          /\ r_pc = "sleep" =>
                /\ Len(r_sleeps) = Len(r_log)
                /\ r_log[Len(r_log)].kind = "Err"
                /\ r_attempt < r_max_retries
          /\ (r_pc = "done" /\ r_result.kind = "Ok") =>
                /\ Len(r_sleeps) = Cardinality(Failures)
                /\ Len(r_sleeps) = Len(r_log) - 1
          /\ (r_pc = "done" /\ r_result.kind = "Err") =>
                /\ Len(r_log) = r_max_retries
                /\ Len(r_sleeps) = r_max_retries - 1
          /\ (r_pc = "done" /\ r_result.kind = "panic") => r_sleeps = << >>)
    /\ [][/\ r_sleeps' # r_sleeps =>
                /\ r_pc = "attempt" /\ r_pc' = "sleep"
                /\ Len(r_sleeps') = Len(r_sleeps) + 1
                /\ r_log'[Len(r_log')].kind = "Err"
                /\ r_attempt < r_max_retries
          /\ (r_pc = "attempt" /\ r_pc' = "done") => r_sleeps' = r_sleeps
          /\ (r_pc = "attempt" /\ r_log' # r_log /\ r_log'[Len(r_log')].kind = "Err"
                /\ r_attempt < r_max_retries) => r_sleeps' # r_sleeps
          /\ r_pc = "done" => r_sleeps' = r_sleeps]_vars

\* C32 witness: a call with max_retries = 3 whose three attempts failed: it
\* returned the last error after two sleeps.
C32_Witness ==
    /\ r_pc = "done"
    /\ r_max_retries = 3
    /\ r_result.kind = "Err"
    /\ Cardinality(Failures) = 3
    /\ Len(r_sleeps) = 2

\* The steps of a call that run under the write guard of the block of
\* add, remove and remove_by_terms, and those of replace_writer under its own.
InBlock == {"stage", "commit", "sleep"}
PastReplaceWrite == {"rw_take", "rw_wait", "rw_new"}

\* C33: a call of add, remove or remove_by_terms holds the write guard of
\* the slot from its first staged record to the end of its last commit
\* attempt, the backoff sleeps included: meanwhile the slot holds the writer,
\* no other call is staging, committing or sleeping, no replace_writer is
\* past its write(), and as long as the call stays in its commit loop the
\* staged buffer, the committed index and the writer are what they were.
C33_HoldSpansCommitRetries ==
    /\ [](\A t \in Producers :
            pc[t] \in InBlock =>
                /\ lock = t
                /\ writer # None
                /\ \A u \in Producers \ {t} : pc[u] \notin InBlock \cup PastReplaceWrite)
    /\ [][\A t \in Producers :
            (pc[t] \in {"commit", "sleep"} /\ pc'[t] \in {"commit", "sleep"}) =>
                /\ lock' = t
                /\ <<uncommitted, committed, writer>>' = <<uncommitted, committed, writer>>]_vars

\* C33 witness: a call sleeps between its second and third commit attempt
\* while another call waits for the slot in replace_writer.
C33_Witness ==
    \E t, u \in Producers :
        /\ pc[t] = "sleep"
        /\ attempt[t] = 2
        /\ lock = t
        /\ pc[u] = "rw_lock"

\* C34: whatever the interleaving of concurrent register_entries_processed
\* calls, the value stored in entries_processed is in
\* 0..entries_before_recycle.
C34_CounterInRange ==
    entries_processed \in 0..entries_before_recycle

\* C34 witness: the counter is at the threshold while two calls are in
\* register_entries_processed, both having loaded it.
C34_Witness ==
    \E t, u \in Producers :
        /\ t # u
        /\ pc[t] = "reg_store" /\ pc[u] = "reg_store"
        /\ models_len[t] > 0 /\ models_len[u] > 0
        /\ entries_processed = entries_before_recycle

\* C35: a call of add, remove or remove_by_terms that fails before its
\* report, on add_document or on the last commit attempt, returns Err with
\* entries_processed as it was, no report and no recycle triggered; from the
\* call to the end of its commit nothing touches the counter, and
\* register_entries_processed is entered only from a commit that succeeded.
C35_FailureLeavesCounter ==
    [][LET t == SeqProducer IN
        /\ pc[t] \in {"lock", "stage", "commit", "sleep"} =>
                /\ entries_processed' = entries_processed
                /\ recycles_triggered' = recycles_triggered
        /\ (pc[t] \in {"stage", "commit"} /\ pc'[t] = "idle") =>
                /\ result'[t] = "Err"
                /\ reports' = reports
                /\ entries_processed' = entries_processed
                /\ recycles_triggered' = recycles_triggered
                /\ writer' = writer
        /\ (result'[t] = "Err" /\ result[t] # "Err") =>
                (pc[t] \in {"stage", "commit"} /\ pc'[t] = "idle")
        /\ (pc[t] # "reg_load" /\ pc'[t] = "reg_load") =>
                /\ pc[t] = "commit"
                /\ reports' = Append(reports, models_len[t])
                /\ committed' = Publish(committed, uncommitted)]_vars

\* C35 witness: after a call that reported one record, a call of two records
\* has failed: the counter is still one, nothing more was reported and no
\* recycle was triggered.
C35_Witness ==
    /\ pc[SeqProducer] = "idle"
    /\ result[SeqProducer] = "Err"
    /\ calls = 2
    /\ reports = <<1>>
    /\ entries_processed = 1
    /\ recycles_triggered = 0
    /\ uncommitted # EmptyBuffer

\* The keys that have a document in docs.
KeysIn(docs) == {k \in Keys : docs[k] # << >>}

\* C36: what a call had staged when it returned an error stays in the
\* writer: the failing add keeps the records staged before the failure and
\* the delete of the failing one, the call whose last commit attempt failed
\* keeps its whole batch; the committed index is not changed by the failure.
\* The buffer is emptied only by a commit that succeeds, which publishes all
\* of it, leftovers and the batch of the committing call together, or by
\* replace_writer taking the writer, which publishes nothing.
C36_LeftoversCommittedLater ==
    [][LET t == SeqProducer IN
        /\ (pc[t] = "stage" /\ pc'[t] = "idle") =>
                /\ result'[t] = "Err"
                /\ uncommitted' = delete_term(uncommitted,
                                              get_primary_key(models[t][staged[t] + 1]))
                /\ committed' = committed
        /\ (pc[t] = "commit" /\ pc'[t] = "idle") =>
                /\ result'[t] = "Err"
                /\ uncommitted' = uncommitted
                /\ committed' = committed
        /\ pc[t] \in {"idle", "lock", "sleep", "reg_load", "reg_store", "rw_lock"} =>
                <<uncommitted, committed>>' = <<uncommitted, committed>>
        /\ (pc[t] = "commit" /\ pc'[t] = "reg_load") =>
                /\ committed' = Publish(committed, uncommitted)
                /\ uncommitted' = EmptyBuffer
        /\ (uncommitted # EmptyBuffer /\ uncommitted' = EmptyBuffer) =>
                \/ pc[t] = "commit" /\ pc'[t] = "reg_load"
                \/ pc[t] = "rw_take" /\ pc'[t] = "rw_wait" /\ committed' = committed
        /\ committed' # committed => (pc[t] = "commit" /\ pc'[t] = "reg_load")]_vars

\* C36 witness: the first call, an add, failed after staging a record; the
\* second call reported one record and its commit made the documents of two
\* keys durable.
C36_Witness ==
    /\ pc[SeqProducer] = "idle"
    /\ result[SeqProducer] = "Ok"
    /\ calls = 2
    /\ reports = <<1>>
    /\ uncommitted = EmptyBuffer
    /\ Cardinality(KeysIn(committed)) = 2

\* Task t is in the register_entries_processed of a write call, or in the
\* replace_writer it triggered.
AfterOwnCommit(t) ==
    /\ op[t] # "recycle_writer"
    /\ pc[t] \in {"reg_load", "reg_store", "rw_lock", "rw_take", "rw_wait", "rw_new"}

\* C37: the error of a recycle triggered by the report of an add, remove or
\* remove_by_terms comes after the commit of the call: the commit has made
\* the batch durable, nothing between the commit and the return of the error
\* changes the committed index, the call stays reported, and the next reload
\* of the reader shows the committed index, the batch included.
C37_RecycleErrorAfterDurableCommit ==
    [][LET t == SeqProducer IN
        /\ (pc[t] = "commit" /\ pc'[t] = "reg_load") =>
                committed' = ApplyBatch(committed, op[t], models[t])
        /\ AfterOwnCommit(t) =>
                /\ committed' = committed
                /\ reports' = reports
                /\ Len(reports) >= 1
        /\ (AfterOwnCommit(t) /\ result'[t] = "Err") =>
                /\ pc[t] \in {"rw_take", "rw_wait", "rw_new"}
                /\ pc'[t] = "idle"
                /\ writer' = None
        /\ searcher' # searcher => searcher' = [gen |-> Len(reports), docs |-> committed]]_vars

\* C37 witness: the first call, an add of two records, committed; the
\* recycle its report triggered failed and the call returned Err; the reader
\* has reloaded and its searcher holds the record.
C37_Witness ==
    /\ pc[SeqProducer] = "idle"
    /\ result[SeqProducer] = "Err"
    /\ calls = 1
    /\ reports = <<2>>
    /\ writer = None
    /\ searcher.gen = 1
    /\ Execute(searcher.docs, SomeRecord.key) = <<SomeRecord>>

\* Task t is in a replace_writer triggered by the report of a write call.
InTriggeredReplace(t) ==
    /\ op[t] # "recycle_writer"
    /\ pc[t] \in {"rw_lock", "rw_take", "rw_wait", "rw_new"}

\* C38: register_entries_processed stores 0 before it calls replace_writer:
\* the store leaves the old writer in the slot, the counter is 0 all through
\* the triggered replace_writer and still 0 when it returns its error; from
\* then on the counter grows only by the entries a call reports, and a
\* recycle is triggered only by a report that takes it above
\* entries_before_recycle.
C38_ResetBeforeRecycle ==
    /\ [](InTriggeredReplace(SeqProducer) => entries_processed = 0)
    /\ [][LET t == SeqProducer IN
            /\ (pc[t] = "reg_store" /\ pc'[t] = "rw_lock") =>
                    /\ entries_processed' = 0
                    /\ writer # None /\ writer' = writer
                    /\ lock' = lock
            /\ (InTriggeredReplace(t) /\ result'[t] = "Err") =>
                    (entries_processed = 0 /\ entries_processed' = 0 /\ writer' = None)
            /\ entries_processed' > entries_processed =>
                    /\ pc[t] = "reg_store" /\ pc'[t] = "idle"
                    /\ entries_processed' = entries_processed + models_len[t]
            /\ recycles_triggered' # recycles_triggered =>
                    /\ pc[t] = "reg_store"
                    /\ recycles_triggered' = recycles_triggered + 1
                    /\ entries_processed + models_len[t] > entries_before_recycle]_vars

\* C38 witness: the recycle triggered by the first call failed and left the
\* slot empty; a recycle_writer installed a writer; the third call reported
\* one entry, which did not trigger a recycle, and the report of the fourth
\* has just triggered the second one.
C38_Witness ==
    /\ pc[SeqProducer] = "rw_lock"
    /\ op[SeqProducer] # "recycle_writer"
    /\ calls = 4
    /\ reports = <<2, 1, 1>>
    /\ writers_created = 2
    /\ recycles_triggered = 2
    /\ entries_processed = 0
    /\ entries_before_recycle = 1

\* The counter after the reports of sequential calls, from counter c: each
\* report adds its entries unless the sum exceeds threshold, which zeroes it.
RECURSIVE CounterAfter(_, _, _)
CounterAfter(c, sizes, threshold) ==
    IF sizes = << >>
    THEN c
    ELSE CounterAfter(IF c + Head(sizes) > threshold THEN 0 ELSE c + Head(sizes),
                      Tail(sizes), threshold)

\* C39: recycle_writer replaces the writer and leaves entries_processed
\* alone: no step of the call changes the counter, the reports or the number
\* of triggered recycles, a successful one installs a new writer; so between
\* calls the counter is what the reports of the write calls alone make it,
\* whatever forced recycles came between them.
C39_ManualRecycleLeavesCounter ==
    /\ [][LET t == SeqProducer IN
            op[t] = "recycle_writer" =>
                /\ entries_processed' = entries_processed
                /\ recycles_triggered' = recycles_triggered
                /\ reports' = reports
                /\ result'[t] = "Ok" => (writer' # None /\ writer' # writer)]_vars
    /\ [](pc[SeqProducer] \notin {"reg_load", "reg_store"} =>
            entries_processed = CounterAfter(0, reports, entries_before_recycle))

\* C39 witness: a call reported one entry, a recycle_writer installed a new
\* writer, and the report of one more entry has just triggered the first
\* threshold recycle.
C39_Witness ==
    /\ pc[SeqProducer] = "rw_lock"
    /\ op[SeqProducer] # "recycle_writer"
    /\ calls = 3
    /\ reports = <<1, 1>>
    /\ writer = 2
    /\ recycles_triggered = 1
    /\ entries_before_recycle = 1

\* C40: a recycle changes the writer slot only: no step of replace_writer,
\* successful or failed, changes the committed index, the reader's searcher
\* or the searchers queries hold; and whatever the recycle did, the reader
\* reloads the committed index afterwards as before.
C40_RecycleTouchesWriterOnly ==
    /\ [][LET t == SeqProducer IN
            (pc[t] \in {"rw_lock", "rw_take", "rw_wait", "rw_new"} /\ pc'[t] # pc[t]) =>
                /\ committed' = committed
                /\ searcher' = searcher
                /\ q_searcher' = q_searcher
                /\ entries_before_recycle' = entries_before_recycle]_vars
    /\ [](searcher.gen # Len(reports) => ENABLED ReaderReload)
    /\ [][searcher' # searcher => searcher' = [gen |-> Len(reports), docs |-> committed]]_vars

\* C40 witness: a commit the reader has not loaded yet, then a recycle that
\* failed: the slot is empty, the searcher is the one of before the commit
\* and the committed index holds the record.
C40_Witness ==
    /\ pc[SeqProducer] = "idle"
    /\ result[SeqProducer] = "Err"
    /\ writer = None
    /\ Len(reports) = 1
    /\ searcher = NoSearcher
    /\ Execute(committed, SomeRecord.key) = <<SomeRecord>>

====
